---- MODULE Spec2Model ----
(***************************************************************************)
(* Model of the Monte-Carlo league simulation and trade search of          *)
(* fantasy_bball_model: game_picker_lib.py (game pool sampler), main.py    *)
(* (player-week pre-simulator, command driver) and analysis_lib.py (team   *)
(* compositor, matchup comparator, league orchestrator, trade search).     *)
(*                                                                         *)
(* Numbers.  Stats are naturals.  A win probability is the rational        *)
(* <<num, den>>: compare_n_weeks counts a category win as 1, a tie as 0.5  *)
(* and a loss as 0 and divides by the week count, so the model counts in   *)
(* halves (win 2, tie 1, loss 0) and keeps the denominator 2 * num_weeks.  *)
(* Python None is the string "None".                                       *)
(***************************************************************************)
EXTENDS Integers, Sequences, FiniteSets, TLC

VARIABLES
    pc,                        \* position of the run
    \* --- compare_n_weeks called on its own (SpecCmp)
    t1_week_list,              \* first argument of compare_n_weeks
    t2_week_list,              \* second argument of compare_n_weeks
    win_probs,                 \* compare_n_weeks(t1_week_list, t2_week_list)
    rev_win_probs,             \* compare_n_weeks(t2_week_list, t1_week_list)
    \* --- build_team_weeks_from_players called on its own (SpecTeam)
    team_roster_ids,           \* build_team_weeks_from_players: roster_player_ids
    team_weekly_stats_list,    \* its result
    \* --- filter_roster called on its own (SpecFilter)
    team_full_roster,          \* filter_roster: full_roster
    view_is_full_strength,     \* filter_roster: is_full_strength
    \* --- game pool sampler and player-week pre-simulator (SpecPool)
    player_ids,                \* generate_weighted_game_samples: player_ids
    num_games,                 \* generate_weighted_game_samples: num_games (K)
    include_dummy_games,       \* generate_weighted_game_samples: flag
    year_weights,              \* generate_weighted_game_samples: (season, weight)
    availability_year_weights, \* predict_all_player_probabilities: (season, weight)
    availability_predictions,  \* player id -> probability <<num, den>>
    game_pools,                \* result of generate_weighted_game_samples
    \* --- the h2h / trade commands of main.py (Spec)
    rosters_map,               \* team -> sequence of <<player id, status>>
    n_sim_weeks,               \* W
    player_weekly_stats_map,   \* player id -> sequence of weeks
    all_team_weekly_stats,     \* team -> scenario -> sequence of weeks
    all_h2h_probs,             \* <<t1, t2, scenario>> -> category -> probability
    args,                      \* the trade command's arguments
    top_fa_ids,                \* find_trades: ranked free agents
    t1_combos,                 \* find_trades: combinations of team 1
    t2_combos,                 \* find_trades: combinations of team 2
    checked_count,             \* find_trades: candidates enumerated so far
    successful_trades,         \* find_trades: accepted trades, in order found
    sorted_trades,             \* find_trades: the reported ranking
    \* --- analyze_exact_trade called after the league simulation (SpecExact)
    new_rosters,               \* scenario -> the post-trade rosters it prints
    trade_results_by_scenario, \* its result
    \* --- scrape_game_logs_for_season of scraper_lib.py (SpecScrape)
    players,                   \* _get_active_players_list(year)
    scraped_count,             \* passes of the loop over players done
    games_data,                \* the game log scraped in the last pass
    new_games_saved,           \* what _save_games_to_db returned, or None
    db_players,                \* players table: the committed player ids
    db_games,                  \* game_stats table: <<player, date>> -> points
    session_dirty,             \* updates the session holds uncommitted
    \* --- culling phase of run_simulations of model.py (SpecCull)
    players_with_games,        \* the pool, a list of player ids
    elo_data                   \* player id -> overall Elo of the last cycle

vars == <<pc, t1_week_list, t2_week_list, win_probs, rev_win_probs,
          team_roster_ids, team_weekly_stats_list,
          team_full_roster, view_is_full_strength,
          player_ids, num_games, include_dummy_games, year_weights,
          availability_year_weights,
          availability_predictions, game_pools, rosters_map, n_sim_weeks, player_weekly_stats_map,
          all_team_weekly_stats, all_h2h_probs, args, top_fa_ids, t1_combos,
          t2_combos, checked_count, successful_trades, sorted_trades,
          new_rosters, trade_results_by_scenario,
          players, scraped_count, games_data, new_games_saved, db_players,
          db_games, session_dirty, players_with_games, elo_data>>

cmpVars == <<t1_week_list, t2_week_list, win_probs, rev_win_probs,
             team_roster_ids, team_weekly_stats_list,
             team_full_roster, view_is_full_strength>>
poolVars == <<player_ids, num_games, include_dummy_games, year_weights,
              availability_year_weights, availability_predictions, game_pools>>
leagueVars == <<rosters_map, all_team_weekly_stats, all_h2h_probs>>
tradeVars == <<args, top_fa_ids, t1_combos, t2_combos, checked_count,
               successful_trades, sorted_trades>>

exactVars == <<new_rosters, trade_results_by_scenario>>
scrapeVars == <<players, scraped_count, games_data, new_games_saved,
                db_players, db_games, session_dirty>>
cullVars == <<players_with_games, elo_data>>

None == "None"

(***************************************************************************)
(* Generic helpers                                                         *)
(***************************************************************************)
Range(s) == {s[i] : i \in 1..Len(s)}

\* F applied to the value of x, which is computed once
Bind(x, F(_)) == CHOOSE r \in { F(y) : y \in {x} } : TRUE

RECURSIVE SumSeq(_)
SumSeq(s) == IF s = <<>> THEN 0 ELSE Head(s) + SumSeq(Tail(s))

\* sum(1 for x in s if P(x))
CountIf(s, P(_)) == Cardinality({i \in 1..Len(s) : P(s[i])})

(***************************************************************************)
(* analysis_lib.py constants                                               *)
(***************************************************************************)
EXPECTED_ROSTER_SIZE == 13

COUNTING_CATEGORIES == <<"pts", "reb", "ast", "stl", "blk", "tpm">>
CATEGORIES == <<"pts", "reb", "ast", "stl", "blk", "tpm", "to", "fg%", "ft%">>
ALL_STAT_KEYS == <<"pts", "reb", "ast", "stl", "blk", "tpm", "to",
                   "fga", "fgm", "fta", "ftm">>
StatKeySet == Range(ALL_STAT_KEYS)
CategorySet == Range(CATEGORIES)
ResultKeys == CategorySet \cup {"overall"}

\* {key: 0.0 for key in ALL_STAT_KEYS}
ZeroWeek == [key \in StatKeySet |-> 0]

(***************************************************************************)
(* compare_n_weeks (analysis_lib.py 87-135)                                *)
(***************************************************************************)
\* counting category, in halves: win 2, loss 0, tie 1
HigherWins_TieLost(a, b) == IF a > b THEN 2 ELSE 0

HigherWins(a, b) == IF a > b THEN 2 ELSE IF a < b THEN 0 ELSE 1

\* faulty variant: turnovers compared like a counting category
LowerWins_HigherBetter(a, b) == IF a > b THEN 2 ELSE IF a < b THEN 0 ELSE 1

\* turnovers: lower is better
LowerWins(a, b) == IF a < b THEN 2 ELSE IF a > b THEN 0 ELSE 1

\* faulty variant: makes / attempts without the guard, 0 / 0 included
Pct_Unguarded(makes, attempts) == <<makes, attempts>>

\* makes / attempts if attempts > 0 else 0, as the rational <<num, den>>
Pct(makes, attempts) == IF attempts > 0 THEN <<makes, attempts>> ELSE <<0, 1>>

\* p > q, p < q or p = q of two rationals with positive denominators
PctWins(p, q) == HigherWins(p[1] * q[2], q[1] * p[2])

\* t1_weekly_wins of one week, the nine categories, in halves
WeeklyCategoryWins(t1_totals, t2_totals) ==
    [cat \in CategorySet |->
        IF cat = "to" THEN LowerWins(t1_totals["to"], t2_totals["to"])
        ELSE IF cat = "fg%"
            THEN PctWins(Pct(t1_totals["fgm"], t1_totals["fga"]),
                         Pct(t2_totals["fgm"], t2_totals["fga"]))
        ELSE IF cat = "ft%"
            THEN PctWins(Pct(t1_totals["ftm"], t1_totals["fta"]),
                         Pct(t2_totals["ftm"], t2_totals["fta"]))
        ELSE HigherWins(t1_totals[cat], t2_totals[cat])]

\* faulty variant: a score of exactly 4.5 counts as a won week
OverallOutcome_TieWins(total_cat_wins2) ==
    IF total_cat_wins2 >= 9 THEN 2 ELSE 0

\* total_cat_wins > 4.5 -> 1, == 4.5 -> 0.5, else 0 (in halves: 9 is 4.5)
OverallOutcome(total_cat_wins2) ==
    IF total_cat_wins2 > 9 THEN 2 ELSE IF total_cat_wins2 = 9 THEN 1 ELSE 0

\* t1_weekly_wins of one week with its 'overall' entry
WeeklyWins(t1_totals, t2_totals) ==
    Bind(WeeklyCategoryWins(t1_totals, t2_totals), LAMBDA w :
        [cat \in ResultKeys |->
            IF cat = "overall"
            THEN OverallOutcome(
                    SumSeq([i \in 1..Len(CATEGORIES) |-> w[CATEGORIES[i]]]))
            ELSE w[cat]])

compare_n_weeks(t1, t2) ==
    LET num_weeks == Len(t1)
    IN  IF num_weeks = 0
        THEN [cat \in ResultKeys |-> <<0, 1>>]
        ELSE Bind([k \in 1..num_weeks |-> WeeklyWins(t1[k], t2[k])],
                  LAMBDA weekly :
                    [cat \in ResultKeys |->
                        <<SumSeq([k \in 1..num_weeks |-> weekly[k][cat]]),
                          2 * num_weeks>>])

\* p + q = 1.0 for two probabilities
SumsToOne(p, q) == p[1] * q[2] + q[1] * p[2] = p[2] * q[2]

\* faulty variant: the reverse direction stores the same probability
Complement_Same(p) == p

\* 1.0 - p
Complement(p) == <<p[2] - p[1], p[2]>>

(***************************************************************************)
(* SpecCmp: compare_n_weeks applied to two week series of equal length     *)
(***************************************************************************)
MaxCmpWeeks == 2

\* a week with the six counting stats c, turnovers t and the shooting lines
Week(pts, c, t, fgm, fga, ftm, fta) ==
    [key \in StatKeySet |->
        CASE key = "pts" -> pts
          [] key = "to"  -> t
          [] key = "fgm" -> fgm
          [] key = "fga" -> fga
          [] key = "ftm" -> ftm
          [] key = "fta" -> fta
          [] OTHER       -> c]

\* the weeks the compared series are drawn from
CmpWeeks ==
    { ZeroWeek,
      Week(1, 1, 1, 1, 2, 1, 2),
      Week(2, 1, 0, 1, 1, 0, 0),
      Week(1, 2, 2, 2, 4, 1, 1),
      Week(0, 2, 1, 0, 1, 2, 2) }

WeekSeries(weeks, len) == [1..len -> weeks]

\* the variables a specification does not use stay at None
IdleCmp ==
    /\ t1_week_list = None /\ t2_week_list = None
    /\ win_probs = None /\ rev_win_probs = None
    /\ team_roster_ids = None /\ team_weekly_stats_list = None
    /\ team_full_roster = None /\ view_is_full_strength = None

IdlePool ==
    /\ player_ids = None /\ num_games = None /\ include_dummy_games = None
    /\ year_weights = None /\ availability_year_weights = None
    /\ availability_predictions = None
    /\ game_pools = None

IdleLeague ==
    /\ rosters_map = None /\ all_team_weekly_stats = None
    /\ all_h2h_probs = None

IdleExact == new_rosters = <<>> /\ trade_results_by_scenario = <<>>

IdleScrape ==
    /\ players = <<>> /\ scraped_count = 0 /\ games_data = <<>>
    /\ new_games_saved = 0 /\ db_players = {} /\ db_games = <<>>
    /\ session_dirty = <<>>

IdleCull == players_with_games = <<>> /\ elo_data = <<>>

IdleTrade ==
    /\ args = None /\ top_fa_ids = None /\ t1_combos = None
    /\ t2_combos = None /\ checked_count = None
    /\ successful_trades = None /\ sorted_trades = None

InitCmp ==
    /\ IdleExact /\ IdleScrape /\ IdleCull
    /\ pc = "cmp_start"
    /\ \E len \in 0..MaxCmpWeeks :
          /\ t1_week_list \in WeekSeries(CmpWeeks, len)
          /\ t2_week_list \in WeekSeries(CmpWeeks, len)
    /\ win_probs = None /\ rev_win_probs = None
    /\ team_roster_ids = None /\ team_weekly_stats_list = None
    /\ team_full_roster = None /\ view_is_full_strength = None
    /\ IdlePool /\ IdleLeague /\ IdleTrade
    /\ n_sim_weeks = None /\ player_weekly_stats_map = None

\* both directions of one matchup
CompareBothWays ==
    /\ pc = "cmp_start"
    /\ win_probs' = compare_n_weeks(t1_week_list, t2_week_list)
    /\ rev_win_probs' = compare_n_weeks(t2_week_list, t1_week_list)
    /\ pc' = "cmp_done"
    /\ UNCHANGED <<scrapeVars, cullVars, exactVars, t1_week_list, t2_week_list, team_roster_ids,
                   team_weekly_stats_list, team_full_roster,
                   view_is_full_strength, poolVars, leagueVars, tradeVars,
                   n_sim_weeks, player_weekly_stats_map>>

NextCmp == CompareBothWays

SpecCmp == InitCmp /\ [][NextCmp]_vars

\* C1 as stated: for series of any equal length W the two directions'
\* probabilities sum to exactly 1.0, in each category and overall.
C1_ComplementAnyLength ==
    pc = "cmp_done" =>
        \A cat \in ResultKeys : SumsToOne(win_probs[cat], rev_win_probs[cat])

\* C1 amended: for series of equal length W >= 1 the probability team A gets
\* from compare_n_weeks(A, B) and the one team B gets from
\* compare_n_weeks(B, A) sum to exactly 1.0, in each of the nine categories
\* and overall; for W = 0 both directions return 0.0 everywhere.
C1_ComplementNonEmpty ==
    pc = "cmp_done" =>
        \A cat \in ResultKeys :
            IF Len(t1_week_list) >= 1
            THEN SumsToOne(win_probs[cat], rev_win_probs[cat])
            ELSE win_probs[cat][1] = 0 /\ rev_win_probs[cat][1] = 0

\* a compared pair with a tied category, a won category and a tied week
C1_Witness ==
    /\ pc = "cmp_done"
    /\ Len(t1_week_list) = MaxCmpWeeks
    /\ \E cat \in CategorySet : win_probs[cat][1] = 1
    /\ \E cat \in CategorySet : win_probs[cat][1] = 2 * MaxCmpWeeks
    /\ win_probs["overall"][1] \notin {0, 2 * MaxCmpWeeks}
    /\ rev_win_probs["overall"][1] > 0

(***************************************************************************)
(* The stored game logs (database.py GameStats rows joined with Player).   *)
(* A row's position in GameStatsTable is its id; a sampled game is a row   *)
(* id, and 0 is the object _create_dummy_game() returns.                   *)
(***************************************************************************)
\* Python None in a numeric column
NoneNum == -1

Game(pid, season, mp, pts, reb, ast, stl, blk, tpm, to, fga, fgm, fta, ftm) ==
    [player_id |-> pid, season |-> season, minutes_played |-> mp,
     points |-> pts, total_rebounds |-> reb, assists |-> ast, steals |-> stl,
     blocks |-> blk, three_pointers |-> tpm, turnovers |-> to,
     field_goal_attempts |-> fga, field_goals |-> fgm,
     free_throw_attempts |-> fta, free_throws |-> ftm]

\* player 901: two played games, a DNP and a game of a season nobody asks
\* for; player 902: DNP rows only; player 903: no row; player 904: one game
GameStatsTable ==
    << Game(901, 2026, "31:20", 3, 1, 1, 1, 0, 1, 1, 2, 1, 2, 1),
       Game(901, 2025, "25:00", 1, 2, NoneNum, 0, 1, 0, 2, 1, 0, 0, NoneNum),
       Game(901, 2026, "00:00", 0, 0, 0, 0, 0, 0, 0, 0, 0, 0, 0),
       Game(901, 2023, "28:10", 9, 9, 9, 9, 9, 9, 0, 9, 9, 9, 9),
       Game(902, 2026, None, NoneNum, NoneNum, NoneNum, NoneNum, NoneNum,
            NoneNum, NoneNum, NoneNum, NoneNum, NoneNum, NoneNum),
       Game(902, 2025, "", 0, 0, 0, 0, 0, 0, 0, 0, 0, 0, 0),
       Game(904, 2026, "36:00", 4, 2, 2, 1, 1, 1, 0, 2, 2, 1, 1) >>

DBPlayers == {901, 902, 903, 904}

DummyGame == 0

\* _create_dummy_game (game_picker_lib.py 186-196): every stat 0
DummyGameRow ==
    Game(NoneNum, NoneNum, "00:00", 0, 0, 0, 0, 0, 0, 0, 0, 0, 0, 0)

GameRow(g) == IF g = DummyGame THEN DummyGameRow ELSE GameStatsTable[g]

\* main.py 34
SIM_YEAR_WEIGHTS == << <<2026, 12>>, <<2025, 2>>, <<2024, 1>> >>

\* probabilities of the sampler are rationals <<num, den>>
default_prob == <<85, 100>>

\* values random.random() returns, in [0, 1)
UniformDraws == { <<0, 1>>, <<1, 2>>, <<99, 100>> }

\* p > q for rationals
RatGreater(p, q) == p[1] * q[2] > q[1] * p[2]

(***************************************************************************)
(* generate_weighted_game_samples (game_picker_lib.py 198-280)             *)
(***************************************************************************)
\* DNP rows: minutes_played is None, empty or "00:00" (216-221)
played_game_filter(row) == row.minutes_played \in {None, "", "00:00"}

\* dict(year_weights).get(season, 0), yw the year_weights argument: the last pair of a season counts
weights_map_get(yw, season) ==
    LET at == {i \in 1..Len(yw) : yw[i][1] = season}
    IN  IF at = {} THEN 0
        ELSE yw[CHOOSE i \in at : \A j \in at : j <= i][2]

\* faulty variant: the query without the filter on minutes_played
QueryPlayedGames_AnyMinutes(ids, yw) ==
    SelectSeq([i \in 1..Len(GameStatsTable) |-> i],
              LAMBDA g :
                /\ GameStatsTable[g].player_id \in Range(ids)
                /\ \E i \in 1..Len(yw) :
                        yw[i][1] = GameStatsTable[g].season)

\* the query of 225-232: ids of the played rows of the listed players in
\* the listed seasons
QueryPlayedGames(ids, yw) ==
    SelectSeq([i \in 1..Len(GameStatsTable) |-> i],
              LAMBDA g :
                /\ GameStatsTable[g].player_id \in Range(ids)
                /\ \E i \in 1..Len(yw) :
                        yw[i][1] = GameStatsTable[g].season
                /\ ~played_game_filter(GameStatsTable[g]))

\* player_game_pools.get(player_id) of 239-251: the games of positive weight
\* (the empty sequence stands for a missing pool: 269 treats both alike)
PlayerGamePool(pid, ids, yw) ==
    SelectSeq(QueryPlayedGames(ids, yw),
              LAMBDA g :
                /\ GameStatsTable[g].player_id = pid
                /\ weights_map_get(yw, GameStatsTable[g].season) > 0)

\* one pass of the loop body of 262-278 with random.random() = u and
\* random.choices picking position c of the pool; a pool-less player that is
\* "available" is dropped from the sample when the fallback is missing
DrawSample_NoFallback(flag, prob, pool, u, c) ==
    IF flag /\ RatGreater(u, prob) THEN <<DummyGame>>
    ELSE IF pool # <<>> THEN <<pool[c]>> ELSE <<>>

\* faulty variant: the availability check is made whatever the flag
DrawSample_FlagIgnored(flag, prob, pool, u, c) ==
    IF RatGreater(u, prob) THEN <<DummyGame>>
    ELSE IF pool # <<>> THEN <<pool[c]>> ELSE <<DummyGame>>

DrawSample(flag, prob, pool, u, c) ==
    IF flag /\ RatGreater(u, prob) THEN <<DummyGame>>
    ELSE IF pool # <<>> THEN <<pool[c]>> ELSE <<DummyGame>>

\* availability_predictions.get(player_id, default_prob)
AvailabilityOf(avail, pid) ==
    IF pid \in DOMAIN avail THEN avail[pid] ELSE default_prob

\* what one pass can append for a player
DrawOutcomes(flag, prob, pool) ==
    { DrawSample(flag, prob, pool, u, c) :
        u \in UniformDraws,
        c \in 1..(IF pool = <<>> THEN 1 ELSE Len(pool)) }

RECURSIVE Concat(_)
Concat(ss) == IF ss = <<>> THEN <<>> ELSE Head(ss) \o Concat(Tail(ss))

\* the lists final_samples[player_id] can end as after num passes
SamplesOf(flag, prob, pool, num) ==
    { Concat(f) : f \in [1..num -> DrawOutcomes(flag, prob, pool)] }

\* the dictionaries final_samples can end as, for the players of ids
RECURSIVE FinalSamples(_, _, _, _, _, _)
FinalSamples(todo, ids, num, yw, avail, flag) ==
    IF todo = <<>> THEN { <<>> }
    ELSE LET pid == Head(todo)
             rest == FinalSamples(Tail(todo), ids, num, yw, avail, flag)
             mine == SamplesOf(flag, AvailabilityOf(avail, pid),
                               PlayerGamePool(pid, ids, yw), num)
         IN  { [q \in DOMAIN m \cup {pid} |-> IF q = pid THEN smp ELSE m[q]] :
                    m \in rest, smp \in mine }

\* the results of one call: {} when the query raises (233-235), else one of
\* the sample dictionaries
generate_weighted_game_samples(ids, num, yw, avail, flag) ==
    { <<>> } \cup FinalSamples(ids, ids, num, yw, avail, flag)

(***************************************************************************)
(* pre_simulate_player_weeks (main.py 72-116)                              *)
(***************************************************************************)
\* (value or 0)
OrZero(v) == IF v = NoneNum THEN 0 ELSE v

\* the eleven additions of 98-108 for one game
GameWeekStats(g) ==
    LET row == GameRow(g)
    IN  [key \in StatKeySet |->
            CASE key = "pts" -> OrZero(row.points)
              [] key = "reb" -> OrZero(row.total_rebounds)
              [] key = "ast" -> OrZero(row.assists)
              [] key = "stl" -> OrZero(row.steals)
              [] key = "blk" -> OrZero(row.blocks)
              [] key = "tpm" -> OrZero(row.three_pointers)
              [] key = "to"  -> OrZero(row.turnovers)
              [] key = "fga" -> OrZero(row.field_goal_attempts)
              [] key = "fgm" -> OrZero(row.field_goals)
              [] key = "fta" -> OrZero(row.free_throw_attempts)
              [] key = "ftm" -> OrZero(row.free_throws)]

AddWeeks(a, b) == [key \in StatKeySet |-> a[key] + b[key]]

RECURSIVE SumWeeks(_)
SumWeeks(ws) ==
    IF ws = <<>> THEN ZeroWeek ELSE AddWeeks(Head(ws), SumWeeks(Tail(ws)))

\* faulty variant: a sample may hold fewer games than asked for
SamplePositions_Fewer(pool, how_many) ==
    { ps \in SUBSET (1..Len(pool)) :
        Cardinality(ps) \in {how_many - 1, how_many} }

\* the positions random.sample(player_pool, num_games) can return, as sets
SamplePositions(pool, how_many) ==
    { ps \in SUBSET (1..Len(pool)) : Cardinality(ps) = how_many }

RECURSIVE SumAt(_, _)
SumAt(pool, ps) ==
    IF ps = {} THEN ZeroWeek
    ELSE LET i == CHOOSE x \in ps : TRUE
         IN  AddWeeks(GameWeekStats(pool[i]), SumAt(pool, ps \ {i}))

\* weekly_totals of one pass of 92-110: 3 or 4 games of the pool
SimulatedWeeks(pool) ==
    { SumAt(pool, ps) :
        ps \in SamplePositions(pool, 3) \cup SamplePositions(pool, 4) }

\* random.sample raises ValueError when it is asked for more games than the
\* pool holds: num_games is 3 or 4
SampleCanRaise(pool, num_weeks) == num_weeks >= 1 /\ Len(pool) < 4

\* a player's weeks of 87-112, one week short for a player without pool
PlayerWeeks_ShortDummy(pool, num_weeks) ==
    IF pool = <<>> THEN { [k \in 1..(num_weeks - 1) |-> ZeroWeek] }
    ELSE [1..num_weeks -> SimulatedWeeks(pool)]

\* game_pools.get(player_id) is None or empty: [dummy_week] * num_weeks
PlayerWeeks(pool, num_weeks) ==
    IF pool = <<>> THEN { [k \in 1..num_weeks |-> ZeroWeek] }
    ELSE [1..num_weeks -> SimulatedWeeks(pool)]

\* game_pools.get(player_id), None read as the empty list
PoolGet(pools, pid) == IF pid \in DOMAIN pools THEN pools[pid] ELSE <<>>

\* the maps the loop of 83-112 can build over the players of todo, written
\* into the map start
RECURSIVE WeekMaps(_, _, _, _)
WeekMaps(todo, pools, num_weeks, start) ==
    IF todo = {} THEN { start }
    ELSE LET pid == CHOOSE x \in todo : TRUE
         IN  { [q \in DOMAIN m \cup {pid} |-> IF q = pid THEN wk ELSE m[q]] :
                    m \in WeekMaps(todo \ {pid}, pools, num_weeks, start),
                    wk \in PlayerWeeks(PoolGet(pools, pid), num_weeks) }

\* some player's sampling can raise
AnySampleCanRaise(ids, pools, num_weeks) ==
    \E pid \in ids :
        PoolGet(pools, pid) # <<>> /\ SampleCanRaise(PoolGet(pools, pid), num_weeks)

(***************************************************************************)
(* SpecPool: get_all_player_game_pools, then pre_simulate_player_weeks     *)
(***************************************************************************)
MaxGames == 4
MaxPoolWeeks == 2

PoolPlayerLists == { <<901, 902, 903>> }

AvailabilityMaps ==
    { <<>>, [p \in {901, 902} |-> IF p = 901 THEN <<1, 1>> ELSE <<0, 1>>] }

\* the second weight list gives season 2025 the weight 0
YearWeightLists == { SIM_YEAR_WEIGHTS, << <<2026, 1>>, <<2025, 0>> >> }

InitPool ==
    /\ IdleExact /\ IdleScrape /\ IdleCull
    /\ pc = "pool_start"
    /\ player_ids \in PoolPlayerLists
    /\ num_games \in 0..MaxGames
    /\ include_dummy_games \in BOOLEAN
    /\ year_weights \in YearWeightLists
    /\ availability_year_weights = None
    /\ availability_predictions \in AvailabilityMaps
    /\ game_pools = None
    /\ n_sim_weeks \in 0..MaxPoolWeeks
    /\ player_weekly_stats_map = None
    /\ IdleCmp /\ IdleLeague /\ IdleTrade

\* generate_weighted_game_samples as get_all_player_game_pools calls it
GenerateSamples ==
    /\ pc = "pool_start"
    /\ game_pools' \in generate_weighted_game_samples(
            player_ids, num_games, year_weights, availability_predictions,
            include_dummy_games)
    /\ pc' = "pools_ready"
    /\ UNCHANGED <<scrapeVars, cullVars, exactVars, player_ids, num_games, include_dummy_games, year_weights,
                   availability_year_weights, availability_predictions,
                   n_sim_weeks,
                   player_weekly_stats_map, cmpVars, leagueVars, tradeVars>>

\* pre_simulate_player_weeks returns its map
PreSimulate ==
    /\ pc = "pools_ready"
    /\ player_weekly_stats_map' \in
            WeekMaps(Range(player_ids), game_pools, n_sim_weeks, <<>>)
    /\ pc' = "presim_done"
    /\ UNCHANGED <<scrapeVars, cullVars, exactVars, poolVars, n_sim_weeks, cmpVars, leagueVars, tradeVars>>

\* pre_simulate_player_weeks ends in random.sample's ValueError
PreSimulateRaises ==
    /\ pc = "pools_ready"
    /\ AnySampleCanRaise(Range(player_ids), game_pools, n_sim_weeks)
    /\ pc' = "presim_raised"
    /\ UNCHANGED <<scrapeVars, cullVars, exactVars, poolVars, n_sim_weeks, player_weekly_stats_map, cmpVars,
                   leagueVars, tradeVars>>

NextPool == GenerateSamples \/ PreSimulate \/ PreSimulateRaises

SpecPool == InitPool /\ [][NextPool]_vars

\* C8 as stated: every requested player gets exactly K samples.
C8_AlwaysKSamples ==
    pc = "pools_ready" =>
        \A pid \in Range(player_ids) :
            pid \in DOMAIN game_pools /\ Len(game_pools[pid]) = num_games

\* C8 amended: generate_weighted_game_samples returns either the empty
\* dictionary (its game query raised) or, for every requested player, exactly
\* K samples, whatever the flag and the availability map, players without
\* played games included (their K samples are all DNP).
C8_KSamplesOrEmpty ==
    pc = "pools_ready" =>
        \/ DOMAIN game_pools = {}
        \/ \A pid \in Range(player_ids) :
                /\ pid \in DOMAIN game_pools
                /\ Len(game_pools[pid]) = num_games
                /\ PlayerGamePool(pid, player_ids, year_weights) = <<>> =>
                        \A i \in 1..num_games : game_pools[pid][i] = DummyGame

\* a full-size sample with a real and a DNP game for the player with
\* history and K DNP games for the players without
C8_Witness ==
    /\ pc = "pools_ready"
    /\ num_games = MaxGames
    /\ DOMAIN game_pools = Range(player_ids)
    /\ \E i, j \in 1..num_games :
            game_pools[901][i] = DummyGame /\ game_pools[901][j] # DummyGame
    /\ Len(game_pools[903]) = MaxGames

C9_WitnessMissingPool ==
    /\ pc = "presim_done"
    /\ n_sim_weeks = MaxPoolWeeks
    /\ DOMAIN game_pools = {}
    /\ Len(player_weekly_stats_map[901]) = MaxPoolWeeks

(***************************************************************************)
(* analysis_lib.py: rosters, team weeks                                    *)
(***************************************************************************)
FREE_AGENTS == "FreeAgents"
SCENARIOS == <<"FullStrength", "Current">>

\* faulty variant: the Current view filtered like the FullStrength view
filter_roster_OneView(full_roster, is_full_strength) ==
    LET kept == SelectSeq(full_roster, LAMBDA t : t[2] # "DROP")
    IN  [i \in 1..Len(kept) |-> kept[i][1]]

\* filter_roster (70-85): FullStrength drops DROP, Current drops INJ
filter_roster(full_roster, is_full_strength) ==
    LET kept == SelectSeq(full_roster,
                    LAMBDA t : IF is_full_strength THEN t[2] # "DROP"
                               ELSE t[2] # "INJ")
    IN  [i \in 1..Len(kept) |-> kept[i][1]]

\* validate_and_crash_if_invalid_roster (15-46) returns instead of exiting;
\* the faulty variant checks no size
RosterPasses_Unchecked(team_name, roster_ids) == TRUE

RosterPasses(team_name, roster_ids) ==
    team_name = FREE_AGENTS \/ Len(roster_ids) = EXPECTED_ROSTER_SIZE

\* player_weekly_stats_map.get(player_id, [])
SeriesGet(map, pid) == IF pid \in DOMAIN map THEN map[pid] ELSE <<>>

\* faulty variant: every entry sums the players' first week
build_team_weeks_from_players_FirstWeek(roster_player_ids, map, num_weeks) ==
    [k \in 1..num_weeks |->
        SumWeeks([i \in 1..Len(roster_player_ids) |->
            IF SeriesGet(map, roster_player_ids[i]) # <<>>
            THEN SeriesGet(map, roster_player_ids[i])[1]
            ELSE ZeroWeek])]

\* build_team_weeks_from_players (48-68)
build_team_weeks_from_players(roster_player_ids, map, num_weeks) ==
    [k \in 1..num_weeks |->
        SumWeeks([i \in 1..Len(roster_player_ids) |->
            IF SeriesGet(map, roster_player_ids[i]) # <<>>
            THEN SeriesGet(map, roster_player_ids[i])[k]
            ELSE ZeroWeek])]

\* sorted(list(rosters_map.keys())) over the team names of the model
TeamOrder == <<"Alex", "Bo", "Cy", "FreeAgents">>

SortedTeams(rosters) == SelectSeq(TeamOrder, LAMBDA t : t \in DOMAIN rosters)

(***************************************************************************)
(* find_trades (analysis_lib.py 278-752): the parts without state          *)
(***************************************************************************)
\* itertools.combinations(seq, n) for n >= 0, in its order
RECURSIVE combinations(_, _)
combinations(seq, n) ==
    IF n = 0 THEN << <<>> >>
    ELSE IF Len(seq) < n THEN <<>>
    ELSE LET with == combinations(Tail(seq), n - 1)
         IN  [i \in 1..Len(with) |-> <<Head(seq)>> \o with[i]]
                \o combinations(Tail(seq), n)

\* what follows the try of 483-488: itertools raises ValueError for a
\* negative n only, and the except clause prints and returns
CombinationsOutcome(tradable1, tradable2, n) ==
    IF n < 0 THEN "return" ELSE "loop"

\* get_tradable_players (469-477); the faulty variants leave out DROP players, and
\* ignore the allow flag
get_tradable_players_NoDrop(roster_tuples, team2_name, allow_trading_injured) ==
    LET kept == SelectSeq(roster_tuples,
                    LAMBDA t : /\ ~(team2_name # FREE_AGENTS
                                     /\ ~allow_trading_injured /\ t[2] = "INJ")
                               /\ t[2] # "DROP")
    IN  [i \in 1..Len(kept) |-> kept[i][1]]

get_tradable_players_AllowAll(roster_tuples, team2_name, allow_trading_injured) ==
    [i \in 1..Len(roster_tuples) |-> roster_tuples[i][1]]

get_tradable_players(roster_tuples, team2_name, allow_trading_injured) ==
    LET kept == SelectSeq(roster_tuples,
                    LAMBDA t : ~(team2_name # FREE_AGENTS
                                  /\ ~allow_trading_injured /\ t[2] = "INJ"))
    IN  [i \in 1..Len(kept) |-> kept[i][1]]

\* t2_full_roster_tuples (403, 420)
Team2Roster(rosters, team2_name, fa_ids) ==
    IF team2_name = FREE_AGENTS
    THEN [i \in 1..Len(fa_ids) |-> <<fa_ids[i], "Active">>]
    ELSE rosters[team2_name]

\* player_status_map.get(p, default) (427-431): team 2's entry is written last
StatusGet(t1_tuples, t2_tuples, p, default) ==
    LET both == t1_tuples \o t2_tuples
        at == {i \in 1..Len(both) : both[i][1] = p}
    IN  IF at = {} THEN default
        ELSE both[CHOOSE i \in at : \A j \in at : j <= i][2]

\* sum(1 for p in players_out if player_status_map.get(p) == status)
StatusCount(t1_tuples, t2_tuples, players_out, status) ==
    CountIf(players_out, LAMBDA p : StatusGet(t1_tuples, t2_tuples, p, None) = status)

\* faulty variant: one required player in the trade is enough
HasRequiredPlayers_Any(required_players, t1_out, t2_out) ==
    Range(required_players) \cap (Range(t1_out) \cup Range(t2_out)) # {}

\* CHECK 1 (506-509)
HasRequiredPlayers(required_players, t1_out, t2_out) ==
    Range(required_players) \subseteq Range(t1_out) \cup Range(t2_out)

\* faulty variant: CHECK 2 lets every candidate through
StatusSymmetric_Always(t1_tuples, t2_tuples, team2_name, t1_out, t2_out) == TRUE

\* faulty variant: CHECK 2 lets any player go to the free agent pool
StatusSymmetric_AnyToFreeAgents(t1_tuples, t2_tuples, team2_name, t1_out, t2_out) ==
    team2_name # FREE_AGENTS =>
        /\ StatusCount(t1_tuples, t2_tuples, t1_out, "DROP")
                = StatusCount(t1_tuples, t2_tuples, t2_out, "DROP")
        /\ StatusCount(t1_tuples, t2_tuples, t1_out, "INJ")
                = StatusCount(t1_tuples, t2_tuples, t2_out, "INJ")

\* CHECK 2 (512-534)
StatusSymmetric(t1_tuples, t2_tuples, team2_name, t1_out, t2_out) ==
    IF team2_name # FREE_AGENTS
    THEN /\ StatusCount(t1_tuples, t2_tuples, t1_out, "DROP")
                = StatusCount(t1_tuples, t2_tuples, t2_out, "DROP")
         /\ StatusCount(t1_tuples, t2_tuples, t1_out, "INJ")
                = StatusCount(t1_tuples, t2_tuples, t2_out, "INJ")
    ELSE StatusCount(t1_tuples, t2_tuples, t1_out, "INJ") = 0

\* Check Criteria (653-660), gains and tolerance in units of 1 / (2 W); the
\* faulty variant accepts a gain of exactly 0 and never looks at team 2
MeetsCriteria_Lax(t1_gain_sum, t2_gain_sum, team2_name, tolerance) ==
    ~(t1_gain_sum < 0)

MeetsCriteria(t1_gain_sum, t2_gain_sum, team2_name, tolerance) ==
    /\ ~(t1_gain_sum <= 0)
    /\ team2_name # FREE_AGENTS => ~(t2_gain_sum < -tolerance)

(***************************************************************************)
(* find_trades: one candidate (analysis_lib.py 498-684)                    *)
(***************************************************************************)
\* a probability with denominator 1 or 2 W, in units of 1 / (2 W)
Units(p, W) == (p[1] * 2 * W) \div p[2]

OverallUnits(a_weeks, b_weeks, W) ==
    Bind(compare_n_weeks(a_weeks, b_weeks)["overall"], LAMBDA p : Units(p, W))

t1_full_roster_tuples == rosters_map[args.team1_name]

t2_full_roster_tuples == Team2Roster(rosters_map, args.team2_name, top_fa_ids)

is_free_agent_mode == args.team2_name = FREE_AGENTS

\* other_team_names (434-436)
other_team_names ==
    SelectSeq(SortedTeams(rosters_map),
              LAMBDA t : t \notin {args.team1_name, args.team2_name}
                         /\ t # FREE_AGENTS)

\* baseline_data[scenario][team].get(other, 0.5) (441-465, 614, 623, 636, 645);
\* the faulty variant reads the opponent's entry
BaselineGet_Swapped(scenario, team, other) ==
    IF <<other, team, scenario>> \in DOMAIN all_h2h_probs
    THEN Units(all_h2h_probs[<<other, team, scenario>>]["overall"], n_sim_weeks)
    ELSE n_sim_weeks

BaselineGet(scenario, team, other) ==
    IF <<team, other, scenario>> \in DOMAIN all_h2h_probs
    THEN Units(all_h2h_probs[<<team, other, scenario>>]["overall"], n_sim_weeks)
    ELSE n_sim_weeks

PlayerStatus(p, default) ==
    StatusGet(t1_full_roster_tuples, t2_full_roster_tuples, p, default)

\* drops_exiting_t1 (538-540)
DropsExitingT1(t1_players_out) ==
    IF is_free_agent_mode
    THEN CountIf(t1_players_out, LAMBDA p : PlayerStatus(p, None) = "DROP")
    ELSE 0

\* the status given to the i-th player entering team 1 (562-572)
EnteringStatus(t1_players_out, t2_players_out, i) ==
    IF is_free_agent_mode /\ i <= DropsExitingT1(t1_players_out)
    THEN "DROP"
    ELSE PlayerStatus(t2_players_out[i], "Active")

\* is_fs: status != 'DROP', else status != 'INJ' (574-577, 582-585)
ActiveIn(scenario, status) ==
    IF scenario = "FullStrength" THEN status # "DROP" ELSE status # "INJ"

\* t1_new_roster (549-577)
T1NewRoster(scenario, t1_players_out, t2_players_out) ==
    LET base == filter_roster(t1_full_roster_tuples, scenario = "FullStrength")
        stay == SelectSeq(base, LAMBDA p : p \notin Range(t1_players_out))
        idx == SelectSeq([i \in 1..Len(t2_players_out) |-> i],
                    LAMBDA i : ActiveIn(scenario,
                        EnteringStatus(t1_players_out, t2_players_out, i)))
    IN  stay \o [k \in 1..Len(idx) |-> t2_players_out[idx[k]]]

\* t2_new_roster (551-559, 579-585)
T2NewRoster(scenario, t1_players_out, t2_players_out) ==
    IF is_free_agent_mode THEN <<>>
    ELSE LET base == filter_roster(t2_full_roster_tuples,
                                   scenario = "FullStrength")
             stay == SelectSeq(base, LAMBDA p : p \notin Range(t2_players_out))
         IN  stay \o SelectSeq(t1_players_out,
                        LAMBDA p : ActiveIn(scenario, PlayerStatus(p, None)))

\* VALIDATION INJECTION (588-590)
NewRostersPass(scenario, t1_players_out, t2_players_out) ==
    /\ RosterPasses(args.team1_name,
                    T1NewRoster(scenario, t1_players_out, t2_players_out))
    /\ is_free_agent_mode
        \/ RosterPasses(args.team2_name,
                        T2NewRoster(scenario, t1_players_out, t2_players_out))

\* the comparisons (599-650) of one scenario, from the new week series
ScenarioGains(scenario, t1_new_weeks, t2_new_weeks) ==
    LET W == n_sim_weeks
        others == Range(other_team_names)
        opp1 == IF is_free_agent_mode THEN others
                ELSE others \cup {args.team2_name}
        opp2 == IF is_free_agent_mode THEN others
                ELSE others \cup {args.team1_name}
        New1(o) == IF o \in others
                   THEN OverallUnits(t1_new_weeks,
                            all_team_weekly_stats[o][scenario], W)
                   ELSE OverallUnits(t1_new_weeks, t2_new_weeks, W)
        New2(o, new_1_vs_2) ==
                   IF is_free_agent_mode THEN 0
                   ELSE IF o \in others
                   THEN OverallUnits(t2_new_weeks,
                            all_team_weekly_stats[o][scenario], W)
                   ELSE 2 * W - new_1_vs_2
        Deltas(new_vals, team) ==
            [o \in DOMAIN new_vals |->
                IF is_free_agent_mode /\ team = args.team2_name THEN 0
                ELSE new_vals[o] - BaselineGet(scenario, team, o)]
        Total(deltas) ==
            LET order == SelectSeq(TeamOrder, LAMBDA t : t \in DOMAIN deltas)
            IN  SumSeq([i \in 1..Len(order) |-> deltas[order[i]]])
    IN  Bind([o \in opp1 |-> New1(o)], LAMBDA new1 :
        Bind([o \in opp2 |->
                New2(o, IF is_free_agent_mode THEN 0 ELSE new1[args.team2_name])],
             LAMBDA new2 :
        Bind(<<Deltas(new1, args.team1_name), Deltas(new2, args.team2_name)>>,
             LAMBDA d :
                [t1_gain_sum |-> Total(d[1]), t2_gain_sum |-> Total(d[2]),
                 t1_deltas |-> d[1], t2_deltas |-> d[2],
                 t1_new_vals |-> new1, t2_new_vals |-> new2])))

\* Fast Sim (594-597), then the comparisons
ScenarioResult(scenario, t1_players_out, t2_players_out) ==
    Bind(<<build_team_weeks_from_players(
                T1NewRoster(scenario, t1_players_out, t2_players_out),
                player_weekly_stats_map, n_sim_weeks),
           IF is_free_agent_mode THEN <<>>
           ELSE build_team_weeks_from_players(
                    T2NewRoster(scenario, t1_players_out, t2_players_out),
                    player_weekly_stats_map, n_sim_weeks)>>,
         LAMBDA weeks : ScenarioGains(scenario, weeks[1], weeks[2]))

ScenarioMeets(r) ==
    MeetsCriteria(r.t1_gain_sum, r.t2_gain_sum, args.team2_name,
                  args.team2_loss_tolerance)

\* combined_gain (672-677)
CombinedGain(results) ==
    SumSeq([i \in 1..Len(SCENARIOS) |->
        results[SCENARIOS[i]].t1_gain_sum
            + (IF is_free_agent_mode THEN 0
               ELSE results[SCENARIOS[i]].t2_gain_sum)])

\* the loop body without CHECK 2 and without the validation of the new rosters
CandidateOutcome_Unguarded(t1_players_out, t2_players_out) ==
    IF args.required_players # <<>>
        /\ ~HasRequiredPlayers(args.required_players,
                               t1_players_out, t2_players_out)
    THEN "skip"
    ELSE IF \A s \in Range(SCENARIOS) :
                ScenarioMeets(ScenarioResult(s, t1_players_out, t2_players_out))
    THEN "accept"
    ELSE "reject"

\* what one pass of the loop body does with a candidate: "skip" (continue of
\* 509-534), "exit" (sys.exit of the validation), "reject" (break of 653-660),
\* or "accept"
CandidateOutcome(t1_players_out, t2_players_out) ==
    IF args.required_players # <<>>
        /\ ~HasRequiredPlayers(args.required_players,
                               t1_players_out, t2_players_out)
    THEN "skip"
    ELSE IF ~StatusSymmetric(t1_full_roster_tuples, t2_full_roster_tuples,
                             args.team2_name, t1_players_out, t2_players_out)
    THEN "skip"
    ELSE IF ~NewRostersPass("FullStrength", t1_players_out, t2_players_out)
    THEN "exit"
    ELSE IF ~ScenarioMeets(ScenarioResult("FullStrength",
                                          t1_players_out, t2_players_out))
    THEN "reject"
    ELSE IF ~NewRostersPass("Current", t1_players_out, t2_players_out)
    THEN "exit"
    ELSE IF ~ScenarioMeets(ScenarioResult("Current",
                                          t1_players_out, t2_players_out))
    THEN "reject"
    ELSE "accept"

\* the dictionary appended at 679-684
TradeEntry(t1_players_out, t2_players_out) ==
    LET results == [s \in Range(SCENARIOS) |->
                        ScenarioResult(s, t1_players_out, t2_players_out)]
    IN  [t1_gives |-> t1_players_out, t2_gives |-> t2_players_out,
         combined_gain |-> CombinedGain(results), results |-> results]

\* faulty variant: the trades in the order found
SortedByGain_AsFound(trades) == trades

\* sorted(successful_trades, key=combined_gain, reverse=True): stable
RECURSIVE SortedByGain(_)
SortedByGain(trades) ==
    IF trades = <<>> THEN <<>>
    ELSE LET rest == SortedByGain(Tail(trades))
             h == Head(trades)
             before == SelectSeq(rest, LAMBDA t : t.combined_gain > h.combined_gain)
             after == SelectSeq(rest, LAMBDA t : t.combined_gain <= h.combined_gain)
         IN  before \o <<h>> \o after

(***************************************************************************)
(* Spec: main.py's trade and h2h commands from the pre-simulated map on:   *)
(* run_league_simulation, then find_trades                                 *)
(***************************************************************************)
MaxSimWeeks == 2
NumStatVariants == 1
MaxTolerance == 1
MaxFAGames == 4

\* a roster of nA players without status, then nI INJ and nD DROP players
Roster(base, nA, nI, nD) ==
    [i \in 1..(nA + nI + nD) |->
        <<base + i, IF i <= nA THEN None
                    ELSE IF i <= nA + nI THEN "INJ" ELSE "DROP">>]

\* get_league_rosters(): the leagues of the model.  Alex with one INJ and no
\* DROP player has 12 players in the Current scenario.
AlexRosters == { Roster(100, 12, 1, 1), Roster(100, 12, 1, 0) }
BoRosters == { Roster(200, 12, 1, 1), Roster(200, 13, 0, 0) }
CyRosters == { Roster(300, 13, 0, 0) }
FreeAgentsRosters == { Roster(400, 1, 0, 0) }

Leagues ==
    { [t \in {"Alex", "Bo", "Cy"} |->
            IF t = "Alex" THEN a ELSE IF t = "Bo" THEN b ELSE c] :
        a \in AlexRosters, b \in BoRosters, c \in CyRosters }
    \cup
    { [t \in {"Alex", "Bo", "Cy", "FreeAgents"} |->
            IF t = "Alex" THEN a ELSE IF t = "Bo" THEN b
            ELSE IF t = "Cy" THEN c ELSE f] :
        a \in AlexRosters, b \in BoRosters, c \in CyRosters,
        f \in FreeAgentsRosters }

\* all_player_ids_set (main.py 305)
AllPlayerIds(rosters) ==
    UNION { {rosters[t][i][1] : i \in 1..Len(rosters[t])} : t \in DOMAIN rosters }

\* a week of player p as pre_simulate_player_weeks can leave it: sums of
\* three or four games
SimWeek(p, k, v) ==
    LET h(salt, m) == (p * 7 + k * 13 + v * 5 + salt * 11 + 10) % m
    IN  [key \in StatKeySet |->
            CASE key = "pts" -> 10 * h(1, 4)
              [] key = "reb" -> h(2, 5)
              [] key = "ast" -> h(3, 4)
              [] key = "stl" -> h(4, 3)
              [] key = "blk" -> h(5, 2)
              [] key = "tpm" -> h(6, 3)
              [] key = "to" -> h(7, 4)
              [] key = "fga" -> 4
              [] key = "fgm" -> h(8, 5)
              [] key = "fta" -> 2
              [] key = "ftm" -> h(9, 3)]

PreSimulatedMap(rosters, v, W) ==
    [p \in AllPlayerIds(rosters) |-> [k \in 1..W |-> SimWeek(p, k, v)]]

\* parse_arguments has not been looked at yet
NoArgs == [command |-> None]

Init ==
    /\ IdleExact /\ IdleScrape /\ IdleCull
    /\ pc = "build_teams"
    /\ rosters_map \in Leagues
    /\ n_sim_weeks \in 1..MaxSimWeeks
    /\ player_weekly_stats_map \in
            { PreSimulatedMap(rosters_map, v, n_sim_weeks) :
                v \in 1..NumStatVariants }
    /\ all_team_weekly_stats = <<>>
    /\ all_h2h_probs = <<>>
    /\ args = NoArgs
    /\ top_fa_ids = <<>> /\ t1_combos = <<>> /\ t2_combos = <<>>
    /\ checked_count = 0
    /\ successful_trades = <<>> /\ sorted_trades = <<>>
    /\ IdleCmp /\ IdlePool

\* the teams whose two scenarios are built
BuiltTeams ==
    { t \in DOMAIN all_team_weekly_stats :
        DOMAIN all_team_weekly_stats[t] = Range(SCENARIOS) }

\* one pass of the inner loop of "Build Team Data" (219-236)
BuildTeamData ==
    /\ pc = "build_teams"
    /\ LET todo == SelectSeq(SortedTeams(rosters_map),
                             LAMBDA t : t \notin BuiltTeams)
           team_name == Head(todo)
           built == IF team_name \in DOMAIN all_team_weekly_stats
                    THEN all_team_weekly_stats[team_name] ELSE <<>>
           scenario == IF "FullStrength" \in DOMAIN built
                       THEN "Current" ELSE "FullStrength"
           active_roster == filter_roster(rosters_map[team_name],
                                          scenario = "FullStrength")
           weekly_stats_list == build_team_weeks_from_players(
                active_roster, player_weekly_stats_map, n_sim_weeks)
       IN  /\ todo # <<>>
           /\ IF RosterPasses(team_name, active_roster)
              THEN /\ all_team_weekly_stats' =
                        [t \in DOMAIN all_team_weekly_stats \cup {team_name} |->
                            IF t = team_name
                            THEN [s \in DOMAIN built \cup {scenario} |->
                                    IF s = scenario THEN weekly_stats_list
                                    ELSE built[s]]
                            ELSE all_team_weekly_stats[t]]
                   /\ pc' = IF Len(todo) = 1 /\ scenario = "Current"
                            THEN "compare_matchups" ELSE "build_teams"
              ELSE /\ pc' = "exit"
                   /\ UNCHANGED all_team_weekly_stats
    /\ UNCHANGED <<scrapeVars, cullVars, exactVars, rosters_map, all_h2h_probs, n_sim_weeks,
                   player_weekly_stats_map, cmpVars, poolVars, tradeVars>>

\* the second loop (243-261): every pair i < j, both scenarios, both orders
CompareMatchups ==
    /\ pc = "compare_matchups"
    /\ LET team_names == SortedTeams(rosters_map)
           pairs == { <<i, j>> \in (1..Len(team_names)) \X (1..Len(team_names)) :
                        i < j }
           keys == UNION { { <<team_names[ij[1]], team_names[ij[2]], s>>,
                             <<team_names[ij[2]], team_names[ij[1]], s>> } :
                           ij \in pairs, s \in Range(SCENARIOS) }
           Pos(t) == CHOOSE i \in 1..Len(team_names) : team_names[i] = t
           Probs(a, b, s) == compare_n_weeks(all_team_weekly_stats[a][s],
                                             all_team_weekly_stats[b][s])
       IN  all_h2h_probs' =
              [key \in keys |->
                  IF Pos(key[1]) < Pos(key[2])
                  THEN Probs(key[1], key[2], key[3])
                  ELSE [cat \in ResultKeys |->
                            Complement(Probs(key[2], key[1], key[3])[cat])]]
    /\ pc' = "league_done"
    /\ UNCHANGED <<scrapeVars, cullVars, exactVars, rosters_map, all_team_weekly_stats, n_sim_weeks,
                   player_weekly_stats_map, cmpVars, poolVars, tradeVars>>

(***************************************************************************)
(* Spec: find_trades                                                       *)
(***************************************************************************)
\* -n of the trade command; 14 is more than any team can give
TradeSizes == {-1, 1, 14}

\* top_fa_ids (319-334): the ranked free agents the queries can return
FreeAgentLists == { <<>>, <<904>> }

RequiredPlayerLists == { <<>> }

\* missing_stats_ids (338)
missing_stats_ids(fa_ids, map) ==
    SelectSeq(fa_ids, LAMBDA pid : pid \notin DOMAIN map \/ map[pid] = <<>>)

\* the write of 374 and 398; the faulty variant forgets what the map held
HydrateInto_Forgetful(missing, pools, num_weeks, map) ==
    WeekMaps(Range(missing), pools, num_weeks, <<>>)

HydrateInto(missing, pools, num_weeks, map) ==
    WeekMaps(Range(missing), pools, num_weeks, map)

\* HYDRATE FREE AGENT STATS (336-400): the maps it can leave
HydratedMaps(fa_ids, map, num_weeks) ==
    LET missing == missing_stats_ids(fa_ids, map)
    IN  IF missing = <<>> THEN { map }
        ELSE UNION { HydrateInto(missing, pools, num_weeks, map) :
                pools \in UNION { generate_weighted_game_samples(
                                    missing, MaxFAGames, SIM_YEAR_WEIGHTS,
                                    avail, TRUE) :
                                  avail \in AvailabilityMaps } }

\* all_team_weekly_stats["FreeAgents"] = {...} (406-409)
WithFreeAgentsEntry(stats) ==
    [t \in DOMAIN stats \cup {FREE_AGENTS} |->
        IF t = FREE_AGENTS THEN [s \in Range(SCENARIOS) |-> <<>>]
        ELSE stats[t]]

\* find_trades down to the combinations (309-492), called with a trade
\* size of sizes and a required_players argument of required_lists
FindTradesCall(sizes, required_lists) ==
    /\ pc = "league_done"
    /\ \E team2 \in DOMAIN rosters_map \ {"Alex"}, n \in sizes,
          tolerance \in 0..MaxTolerance, injured \in BOOLEAN,
          required \in required_lists, fa_ids \in FreeAgentLists :
        /\ args' = [command |-> "trade", num |-> n, team1_name |-> "Alex",
                    team2_name |-> team2, team2_loss_tolerance |-> tolerance,
                    allow_trading_injured |-> injured,
                    required_players |-> required]
        /\ IF team2 = FREE_AGENTS
           THEN /\ top_fa_ids' = fa_ids
                /\ player_weekly_stats_map' \in
                       HydratedMaps(fa_ids, player_weekly_stats_map, n_sim_weeks)
                /\ all_team_weekly_stats' =
                       WithFreeAgentsEntry(all_team_weekly_stats)
           ELSE /\ fa_ids = <<>>
                /\ top_fa_ids' = <<>>
                /\ UNCHANGED <<player_weekly_stats_map, all_team_weekly_stats>>
        /\ LET t2_tuples == Team2Roster(rosters_map, team2, fa_ids)
               t1_tradable_ids == get_tradable_players(rosters_map["Alex"],
                                                       team2, injured)
               t2_tradable_ids == get_tradable_players(t2_tuples, team2, injured)
               outcome == CombinationsOutcome(t1_tradable_ids,
                                              t2_tradable_ids, n)
           IN  IF outcome = "loop"
               THEN /\ t1_combos' = combinations(t1_tradable_ids, n)
                    /\ t2_combos' = combinations(t2_tradable_ids, n)
                    /\ checked_count' = 0
                    /\ successful_trades' = <<>>
                    /\ pc' = "trade_loop"
               ELSE /\ pc' = "done"
                    /\ UNCHANGED <<t1_combos, t2_combos, checked_count,
                                   successful_trades>>
    /\ UNCHANGED <<scrapeVars, cullVars, exactVars, rosters_map, all_h2h_probs, n_sim_weeks, sorted_trades,
                   cmpVars, poolVars>>

\* main.py 293-303: the call of the trade command, without required_players
FindTradesStart ==
    /\ pc = "league_done"
    /\ FindTradesCall(TradeSizes, RequiredPlayerLists)

\* the except clause of 411-416: a query of the free agent block raised
FreeAgentsQueryRaises ==
    /\ pc = "league_done"
    /\ FREE_AGENTS \in DOMAIN rosters_map
    /\ \E n \in TradeSizes, tolerance \in 0..MaxTolerance, injured \in BOOLEAN,
          required \in RequiredPlayerLists :
        args' = [command |-> "trade", num |-> n, team1_name |-> "Alex",
                 team2_name |-> FREE_AGENTS, team2_loss_tolerance |-> tolerance,
                 allow_trading_injured |-> injured,
                 required_players |-> required]
    /\ pc' = "done"
    /\ UNCHANGED <<scrapeVars, cullVars, exactVars, rosters_map, all_team_weekly_stats, all_h2h_probs,
                   n_sim_weeks, player_weekly_stats_map, top_fa_ids, t1_combos,
                   t2_combos, checked_count, successful_trades, sorted_trades,
                   cmpVars, poolVars>>

\* the h2h command ends after run_league_simulation (main.py 317-320)
H2HDone ==
    /\ pc = "league_done"
    /\ args' = [command |-> "h2h"]
    /\ pc' = "done"
    /\ UNCHANGED <<scrapeVars, cullVars, exactVars, rosters_map, all_team_weekly_stats, all_h2h_probs,
                   n_sim_weeks, player_weekly_stats_map, top_fa_ids, t1_combos,
                   t2_combos, checked_count, successful_trades, sorted_trades,
                   cmpVars, poolVars>>

total_trades_to_check == Len(t1_combos) * Len(t2_combos)

\* the candidate the nested loops of 498-499 reach after c passes
CandidateAt(c) ==
    <<t1_combos[((c - 1) \div Len(t2_combos)) + 1],
      t2_combos[((c - 1) % Len(t2_combos)) + 1]>>

\* faulty variant: an accepted trade takes the leaving players off team 1's
\* list in the roster map
CheckCandidate_InPlace ==
    /\ pc = "trade_loop"
    /\ checked_count < total_trades_to_check
    /\ checked_count' = checked_count + 1
    /\ LET cand == CandidateAt(checked_count + 1)
           outcome == CandidateOutcome(cand[1], cand[2])
       IN  /\ pc' = IF outcome = "exit" THEN "exit" ELSE "trade_loop"
           /\ successful_trades' =
                IF outcome = "accept"
                THEN Append(successful_trades, TradeEntry(cand[1], cand[2]))
                ELSE successful_trades
           /\ rosters_map' =
                IF outcome = "accept"
                THEN [rosters_map EXCEPT ![args.team1_name] =
                        SelectSeq(@, LAMBDA t : t[1] \notin Range(cand[1]))]
                ELSE rosters_map
    /\ UNCHANGED <<scrapeVars, cullVars, exactVars, all_team_weekly_stats, all_h2h_probs,
                   n_sim_weeks, player_weekly_stats_map, args, top_fa_ids,
                   t1_combos, t2_combos, sorted_trades, cmpVars, poolVars>>

\* one pass of the loop body (501-684)
CheckCandidate ==
    /\ pc = "trade_loop"
    /\ checked_count < total_trades_to_check
    /\ checked_count' = checked_count + 1
    /\ LET cand == CandidateAt(checked_count + 1)
           outcome == CandidateOutcome(cand[1], cand[2])
       IN  /\ pc' = IF outcome = "exit" THEN "exit" ELSE "trade_loop"
           /\ successful_trades' =
                IF outcome = "accept"
                THEN Append(successful_trades, TradeEntry(cand[1], cand[2]))
                ELSE successful_trades
    /\ UNCHANGED <<scrapeVars, cullVars, exactVars, rosters_map, all_team_weekly_stats, all_h2h_probs,
                   n_sim_weeks, player_weekly_stats_map, args, top_fa_ids,
                   t1_combos, t2_combos, sorted_trades, cmpVars, poolVars>>

\* after the loops (686-752): nothing found, or the sorted report
ReportTrades ==
    /\ pc = "trade_loop"
    /\ checked_count = total_trades_to_check
    /\ sorted_trades' = IF successful_trades = <<>> THEN <<>>
                        ELSE SortedByGain(successful_trades)
    /\ pc' = "done"
    /\ UNCHANGED <<scrapeVars, cullVars, exactVars, rosters_map, all_team_weekly_stats, all_h2h_probs,
                   n_sim_weeks, player_weekly_stats_map, args, top_fa_ids,
                   t1_combos, t2_combos, checked_count, successful_trades,
                   cmpVars, poolVars>>

Next ==
    \/ BuildTeamData
    \/ CompareMatchups
    \/ FindTradesStart
    \/ FreeAgentsQueryRaises
    \/ H2HDone
    \/ CheckCandidate
    \/ ReportTrades

Spec == Init /\ [][Next]_vars

(***************************************************************************)
(* Claims about run_league_simulation and find_trades                      *)
(***************************************************************************)
\* the team-week series built so far, as <<team, scenario>> pairs
BuiltSeries ==
    { ts \in (DOMAIN rosters_map) \X Range(SCENARIOS) :
        /\ ts[1] \in DOMAIN all_team_weekly_stats
        /\ ts[2] \in DOMAIN all_team_weekly_stats[ts[1]] }

ActiveSize(team, scenario) ==
    Len(filter_roster(rosters_map[team], scenario = "FullStrength"))

InMain ==
    pc \in {"build_teams", "compare_matchups", "league_done", "trade_loop",
            "done", "exit"}

\* C4 as stated: every team-week series run_league_simulation has built
\* comes from an active roster of exactly EXPECTED_ROSTER_SIZE players, for
\* every team of the roster map.
C4_EveryBuiltRosterHasSize ==
    InMain =>
        \A ts \in BuiltSeries :
            args = NoArgs => ActiveSize(ts[1], ts[2]) = EXPECTED_ROSTER_SIZE

\* C4 amended: for every team of the roster map other than the one named
\* FreeAgents and for each scenario, a team-week series is built only from an
\* active roster of exactly EXPECTED_ROSTER_SIZE players, and it is the
\* series of that roster; when the run has aborted in run_league_simulation,
\* the roster whose size was wrong has no series.  The team named FreeAgents
\* is not validated: its series is built from a roster of any size.
C4_BuiltRosterHasSizeExceptFreeAgents ==
    InMain =>
        /\ \A ts \in BuiltSeries :
              ts[1] # FREE_AGENTS =>
                /\ ActiveSize(ts[1], ts[2]) = EXPECTED_ROSTER_SIZE
                /\ all_team_weekly_stats[ts[1]][ts[2]] =
                      build_team_weeks_from_players(
                          filter_roster(rosters_map[ts[1]],
                                        ts[2] = "FullStrength"),
                          player_weekly_stats_map, n_sim_weeks)
        /\ (pc = "exit" /\ args = NoArgs) =>
              \E ts \in ((DOMAIN rosters_map) \X Range(SCENARIOS)) \ BuiltSeries :
                  /\ ts[1] # FREE_AGENTS
                  /\ ActiveSize(ts[1], ts[2]) # EXPECTED_ROSTER_SIZE

\* Alex's Current roster has 12 players: the run has aborted after building
\* Alex's FullStrength series and nothing else
C4_Witness ==
    /\ pc = "exit" /\ args = NoArgs
    /\ BuiltSeries = { <<"Alex", "FullStrength">> }
    /\ ActiveSize("Alex", "Current") = 12

InFindTrades == pc \in {"trade_loop", "done", "exit"} /\ args.command = "trade"

RealTeamMode == InFindTrades /\ args.team2_name # FREE_AGENTS

\* the teams the gains of team 1 are summed over: every team of the roster
\* map but team 1 and the free agent pool
OpponentsOfTeam1 == DOMAIN rosters_map \ {args.team1_name, FREE_AGENTS}

\* the candidate of the last pass of the loop was accepted
LastCandidateAccepted ==
    /\ checked_count >= 1 /\ successful_trades # <<>>
    /\ LET last == successful_trades[Len(successful_trades)]
       IN  <<last.t1_gives, last.t2_gives>> = CandidateAt(checked_count)

\* C2: every accepted trade has, in FullStrength and in Current, a team 1
\* gain (the sum over the other teams of new overall probability minus
\* baseline) strictly above 0 and, against a real team 2, a team 2 gain not
\* below minus the tolerance; the recorded gains are the ones the candidate
\* has, so a candidate failing a condition in a scenario is not in the list.
C2_AcceptedMeetCriteria ==
    InFindTrades =>
        /\ \A i \in 1..Len(successful_trades) : \A s \in Range(SCENARIOS) :
              LET r == successful_trades[i].results[s]
              IN  /\ r.t1_gain_sum > 0
                  /\ args.team2_name # FREE_AGENTS =>
                        r.t2_gain_sum >= -args.team2_loss_tolerance
                  /\ DOMAIN r.t1_deltas = OpponentsOfTeam1
                  /\ \A o \in OpponentsOfTeam1 :
                        r.t1_deltas[o] = r.t1_new_vals[o]
                            - BaselineGet(s, args.team1_name, o)
        /\ LastCandidateAccepted =>
              LET last == successful_trades[Len(successful_trades)]
              IN  \A s \in Range(SCENARIOS) :
                    last.results[s] =
                        ScenarioResult(s, last.t1_gives, last.t2_gives)

\* an accepted trade with a real team whose team 2 loses within the
\* tolerance, after a candidate that was not accepted
C2_Witness ==
    /\ RealTeamMode /\ LastCandidateAccepted
    /\ Len(successful_trades) < checked_count
    /\ \E s \in Range(SCENARIOS) :
          successful_trades[Len(successful_trades)].results[s].t2_gain_sum < 0

C2_WitnessFreeAgents ==
    /\ InFindTrades /\ args.team2_name = FREE_AGENTS /\ LastCandidateAccepted

\* C3: every accepted trade between two real teams has as many DROP players
\* leaving team 1 as leaving team 2, and as many INJ players.
C3_AcceptedStatusSymmetric ==
    RealTeamMode =>
        \A i \in 1..Len(successful_trades) :
            LET t == successful_trades[i]
                Count(out, status) ==
                    CountIf(out, LAMBDA p :
                        \E k \in 1..Len(rosters_map[args.team1_name]
                                          \o rosters_map[args.team2_name]) :
                            (rosters_map[args.team1_name]
                                \o rosters_map[args.team2_name])[k]
                                    = <<p, status>>)
            IN  /\ Count(t.t1_gives, "DROP") = Count(t.t2_gives, "DROP")
                /\ Count(t.t1_gives, "INJ") = Count(t.t2_gives, "INJ")

\* a trade was accepted between two real teams that both hold INJ and DROP
\* players, with injured players tradable
C3_Witness ==
    /\ RealTeamMode /\ LastCandidateAccepted
    /\ args.allow_trading_injured
    /\ \A t \in {args.team1_name, args.team2_name} :
          \A status \in {"INJ", "DROP"} :
              \E k \in 1..Len(rosters_map[t]) : rosters_map[t][k][2] = status

\* the players of the candidates on one side
PlayersIn(combos) == UNION { Range(combos[i]) : i \in 1..Len(combos) }

StatusPlayers(roster_tuples, status) ==
    { roster_tuples[k][1] : k \in { j \in 1..Len(roster_tuples) :
                                        roster_tuples[j][2] = status } }

\* C5 as stated: no enumerated candidate holds a DROP player, on either side
C5_NoDropEnumerated ==
    InFindTrades =>
        /\ PlayersIn(t1_combos)
              \cap StatusPlayers(t1_full_roster_tuples, "DROP") = {}
        /\ PlayersIn(t2_combos)
              \cap StatusPlayers(t2_full_roster_tuples, "DROP") = {}

\* C5 amended: the players of the candidates find_trades enumerates are, on
\* each side, the players of the roster except the INJ players when the
\* allow-injured flag is false and team 2 is a real team; DROP players are
\* never left out, so with N = 1 every DROP player of either roster is in a
\* candidate whatever the flag.
C5_OnlyInjuredLeftOut ==
    (pc = "trade_loop" /\ args.num = 1) =>
        LET LeftOut(tuples) ==
                IF args.team2_name # FREE_AGENTS /\ ~args.allow_trading_injured
                THEN StatusPlayers(tuples, "INJ") ELSE {}
            Ids(tuples) == { tuples[k][1] : k \in 1..Len(tuples) }
        IN  /\ PlayersIn(t1_combos) =
                  Ids(t1_full_roster_tuples) \ LeftOut(t1_full_roster_tuples)
            /\ PlayersIn(t2_combos) =
                  Ids(t2_full_roster_tuples) \ LeftOut(t2_full_roster_tuples)
            /\ StatusPlayers(t1_full_roster_tuples, "DROP")
                  \subseteq PlayersIn(t1_combos)
            /\ StatusPlayers(t2_full_roster_tuples, "DROP")
                  \subseteq PlayersIn(t2_combos)

\* the loop has come to a candidate that swaps a DROP player of team 1 for a
\* DROP player of team 2, with the allow-injured flag false
C5_Witness ==
    /\ pc = "trade_loop" /\ args.num = 1 /\ ~args.allow_trading_injured
    /\ checked_count >= 1
    /\ LET cand == CandidateAt(checked_count)
       IN  /\ cand[1][1] \in StatusPlayers(t1_full_roster_tuples, "DROP")
           /\ cand[2][1] \in StatusPlayers(t2_full_roster_tuples, "DROP")

\* a candidate holds a player of that status
HoldsStatus(cand, status) ==
    \E p \in Range(cand[1]) \cup Range(cand[2]) :
        p \in StatusPlayers(t1_full_roster_tuples, status)
                \cup StatusPlayers(t2_full_roster_tuples, status)

\* C6: with the allow-injured flag false, no candidate that find_trades
\* evaluates (takes past CHECK 2 to the simulation) holds an INJ player of
\* either team; with the flag true and a real team 2, the INJ players of both
\* teams are among the tradable players the candidates are made of.
C6_InjuredOnlyWhenAllowed ==
    (pc \in {"trade_loop", "done"} /\ args.command = "trade"
        /\ checked_count >= 1) =>
        LET cand == CandidateAt(checked_count)
        IN  /\ (~args.allow_trading_injured /\ HoldsStatus(cand, "INJ")) =>
                    /\ args.team2_name = FREE_AGENTS
                    /\ CandidateOutcome(cand[1], cand[2]) = "skip"
            /\ (args.allow_trading_injured /\ args.team2_name # FREE_AGENTS
                    /\ args.num = 1) =>
                    /\ StatusPlayers(t1_full_roster_tuples, "INJ")
                            \subseteq PlayersIn(t1_combos)
                    /\ StatusPlayers(t2_full_roster_tuples, "INJ")
                            \subseteq PlayersIn(t2_combos)

\* flag false, two real teams that both hold an INJ player: every candidate
\* has been gone through
C6_Witness ==
    /\ RealTeamMode /\ pc = "done" /\ ~args.allow_trading_injured
    /\ args.num = 1 /\ checked_count = total_trades_to_check
    /\ checked_count >= 1
    /\ StatusPlayers(t1_full_roster_tuples, "INJ") # {}
    /\ StatusPlayers(t2_full_roster_tuples, "INJ") # {}

\* flag true: a candidate swapping the two INJ players has been evaluated
C6_WitnessAllowed ==
    /\ RealTeamMode /\ args.allow_trading_injured /\ checked_count >= 1
    /\ LET cand == CandidateAt(checked_count)
       IN  /\ cand[1][1] \in StatusPlayers(t1_full_roster_tuples, "INJ")
           /\ cand[2][1] \in StatusPlayers(t2_full_roster_tuples, "INJ")

\* C7 as stated: from the pre-simulated map on, no step of
\* run_league_simulation or of find_trades, in either mode, changes the map.
C7_MapNeverWritten ==
    [][InMain => player_weekly_stats_map' = player_weekly_stats_map]_vars

\* C7 amended: run_league_simulation and find_trades against a real team
\* never write the map; find_trades against the free agents writes it only
\* before the first candidate, and only to add the series, each of
\* n_sim_weeks weeks, of ranked free agents that had no series or an empty
\* one: no key is removed and no non-empty series of the map is replaced or
\* changed in any week.
C7_MapOnlyGainsFreeAgents ==
    [][InMain =>
        \/ player_weekly_stats_map' = player_weekly_stats_map
        \/ /\ pc = "league_done" /\ pc' \in {"trade_loop", "done"}
           /\ args'.team2_name = FREE_AGENTS
           /\ DOMAIN player_weekly_stats_map
                \subseteq DOMAIN player_weekly_stats_map'
           /\ \A p \in DOMAIN player_weekly_stats_map' :
                IF p \in DOMAIN player_weekly_stats_map
                    /\ player_weekly_stats_map[p] # <<>>
                THEN player_weekly_stats_map'[p] = player_weekly_stats_map[p]
                ELSE /\ p \in Range(top_fa_ids')
                     /\ Len(player_weekly_stats_map'[p]) = n_sim_weeks]_vars

\* find_trades against the free agents has given free agent 904 a series
\* with a week that is not all zeros, next to the series of the rostered
\* players
C7_Witness ==
    /\ InFindTrades /\ args.team2_name = FREE_AGENTS
    /\ 904 \in DOMAIN player_weekly_stats_map
    /\ 904 \notin AllPlayerIds(rosters_map)
    /\ \E k \in 1..n_sim_weeks : player_weekly_stats_map[904][k] # ZeroWeek
    /\ AllPlayerIds(rosters_map) \subseteq DOMAIN player_weekly_stats_map

\* a team has fewer than N tradable players
TooFewTradable ==
    \/ Len(get_tradable_players(t1_full_roster_tuples, args.team2_name,
                                args.allow_trading_injured)) < args.num
    \/ Len(get_tradable_players(t2_full_roster_tuples, args.team2_name,
                                args.allow_trading_injured)) < args.num

\* C10: when a team has fewer than N tradable players, find_trades treats it
\* as fatal: the run is terminated at the combinations, it never comes to the
\* candidate loop or to the report of the trades found.
C10_TooFewPlayersHalts ==
    (InFindTrades /\ args.num >= 0 /\ TooFewTradable) =>
        pc = "exit"

\* N is larger than a team's tradable players and the run has ended with the
\* report of no trades, after a loop of no candidates
C10_ReportedNoTrades ==
    /\ InFindTrades /\ args.num >= 0 /\ TooFewTradable
    /\ pc = "done" /\ total_trades_to_check = 0 /\ successful_trades = <<>>

(***************************************************************************)
(* SpecDom: the trade command between real teams where Bo's player 201 is  *)
(* player 101 of Alex plus a fixed difference in every week                *)
(***************************************************************************)
DomLeague ==
    [t \in {"Alex", "Bo", "Cy"} |->
        IF t = "Alex" THEN Roster(100, 12, 1, 1)
        ELSE IF t = "Bo" THEN Roster(200, 12, 1, 1)
        ELSE Roster(300, 13, 0, 0)]

\* every week of player 101
GivenWeek == Week(10, 3, 3, 2, 4, 1, 2)

\* what player 201 has more than player 101 in every week
OneMoreOfAll == [key \in StatKeySet |-> 1]

MoreCounted ==
    [key \in StatKeySet |->
        IF key = "pts" THEN 8
        ELSE IF key \in {"reb", "ast", "stl", "blk", "tpm"} THEN 4 ELSE 0]

TurnoversOnly(n) == [key \in StatKeySet |-> IF key = "to" THEN n ELSE 0]

\* the difference, and whether the other players of Alex have all-zero weeks
\* (players without games) and Alex loses every matchup whoever it trades for
DomCases ==
    { <<OneMoreOfAll, TRUE>>, <<MoreCounted, TRUE>>, <<MoreCounted, FALSE>>,
      <<TurnoversOnly(-3), FALSE>>, <<TurnoversOnly(3), FALSE>> }

InitDom ==
    /\ IdleExact /\ IdleScrape /\ IdleCull
    /\ pc = "build_teams"
    /\ rosters_map = DomLeague
    /\ n_sim_weeks \in 1..MaxSimWeeks
    /\ \E case \in DomCases :
          player_weekly_stats_map =
              [p \in AllPlayerIds(DomLeague) |->
                  [k \in 1..n_sim_weeks |->
                      IF p = 101 THEN GivenWeek
                      ELSE IF p = 201 THEN AddWeeks(GivenWeek, case[1])
                      ELSE IF case[2] /\ p \in 102..114 THEN ZeroWeek
                      ELSE SimWeek(p, k, 1)]]
    /\ all_team_weekly_stats = <<>>
    /\ all_h2h_probs = <<>>
    /\ args = NoArgs
    /\ top_fa_ids = <<>> /\ t1_combos = <<>> /\ t2_combos = <<>>
    /\ checked_count = 0
    /\ successful_trades = <<>> /\ sorted_trades = <<>>
    /\ IdleCmp /\ IdlePool

NextDom ==
    \/ BuildTeamData
    \/ CompareMatchups
    \/ FindTradesStart
    \/ H2HDone
    \/ CheckCandidate
    \/ ReportTrades

SpecDom == InitDom /\ [][NextDom]_vars

\* the loop has just gone through a 1-for-1 candidate between real teams
\* that CHECK 2 lets through
OneForOneChecked ==
    /\ pc \in {"trade_loop", "done"} /\ args.command = "trade"
    /\ args.team2_name # FREE_AGENTS /\ args.num = 1 /\ checked_count >= 1
    /\ LET cand == CandidateAt(checked_count)
       IN  StatusSymmetric(t1_full_roster_tuples, t2_full_roster_tuples,
                           args.team2_name, cand[1], cand[2])

\* the player received has more than the player given in every stat of every
\* week
DominatesEveryStat(given, received) ==
    \A k \in 1..n_sim_weeks : \A key \in StatKeySet :
        player_weekly_stats_map[received][k][key]
            > player_weekly_stats_map[given][k][key]

\* the player received is at least as good in every week for every category:
\* no counting stat lower, no more turnovers, no fewer makes on the same
\* attempts
AtLeastAsGood(given, received) ==
    \A k \in 1..n_sim_weeks :
        LET g == player_weekly_stats_map[given][k]
            r == player_weekly_stats_map[received][k]
        IN  /\ \A key \in {"pts", "reb", "ast", "stl", "blk", "tpm", "fgm", "ftm"} :
                  r[key] >= g[key]
            /\ r["to"] <= g["to"]
            /\ r["fga"] = g["fga"] /\ r["fta"] = g["fta"]

Team1Gain(scenario) ==
    LET cand == CandidateAt(checked_count)
    IN  ScenarioResult(scenario, cand[1], cand[2]).t1_gain_sum

\* C11 as stated: in a 1-for-1 trade between two real teams where the player
\* team 1 receives has more than the player it gives in every stat of every
\* week, team 1's gain summed over the other teams (and over the two
\* scenarios) is strictly positive.
C11_DominatingTradeGains ==
    (OneForOneChecked
        /\ DominatesEveryStat(CandidateAt(checked_count)[1][1],
                              CandidateAt(checked_count)[2][1])) =>
        Team1Gain("FullStrength") + Team1Gain("Current") > 0

\* C11 amended: in a 1-for-1 trade between two real teams where the player
\* team 1 receives is in every week at least as good for every category
\* (no counting stat lower, no more turnovers, no fewer makes on the same
\* attempts), team 1's summed gain is not negative in either scenario.
C11_BetterPlayerNeverLoses ==
    (OneForOneChecked
        /\ AtLeastAsGood(CandidateAt(checked_count)[1][1],
                         CandidateAt(checked_count)[2][1])) =>
        \A s \in Range(SCENARIOS) : Team1Gain(s) >= 0

\* such a trade with a gain above 0 in both scenarios
C11_Witness ==
    /\ OneForOneChecked
    /\ AtLeastAsGood(CandidateAt(checked_count)[1][1],
                     CandidateAt(checked_count)[2][1])
    /\ \A s \in Range(SCENARIOS) : Team1Gain(s) > 0

\* a trade with no gain, the player received having more of everything
C11_WitnessNoGain ==
    /\ OneForOneChecked
    /\ DominatesEveryStat(CandidateAt(checked_count)[1][1],
                          CandidateAt(checked_count)[2][1])
    /\ \A s \in Range(SCENARIOS) : Team1Gain(s) = 0

\* more turnovers and nothing else: a loss for team 1
C11_WitnessTurnoverLoss ==
    /\ OneForOneChecked
    /\ CandidateAt(checked_count) = << <<101>>, <<201>> >>
    /\ \E s \in Range(SCENARIOS) : Team1Gain(s) < 0

(***************************************************************************)
(* Claims on compare_n_weeks, under SpecCmp                                *)
(***************************************************************************)
IsOne(p) == p[1] = p[2]

IsHalf(p) == 2 * p[1] = p[2]

IsZero(p) == p[1] = 0

\* every week of the series is the same week
ConstantSeries(series) ==
    \A i, j \in 1..Len(series) : series[i] = series[j]

\* the two teams have the same value in the category in this week
CategoryTied(t1_totals, t2_totals, cat) ==
    IF cat = "fg%"
    THEN (IF t1_totals["fga"] > 0 THEN t1_totals["fgm"] * (IF t2_totals["fga"] > 0 THEN t2_totals["fga"] ELSE 1) ELSE 0)
       = (IF t2_totals["fga"] > 0 THEN t2_totals["fgm"] * (IF t1_totals["fga"] > 0 THEN t1_totals["fga"] ELSE 1) ELSE 0)
    ELSE IF cat = "ft%"
    THEN (IF t1_totals["fta"] > 0 THEN t1_totals["ftm"] * (IF t2_totals["fta"] > 0 THEN t2_totals["fta"] ELSE 1) ELSE 0)
       = (IF t2_totals["fta"] > 0 THEN t2_totals["ftm"] * (IF t1_totals["fta"] > 0 THEN t1_totals["fta"] ELSE 1) ELSE 0)
    ELSE t1_totals[cat] = t2_totals[cat]

ConstantCompared ==
    /\ pc = "cmp_done"
    /\ ConstantSeries(t1_week_list) /\ ConstantSeries(t2_week_list)

\* C12 as stated: for two constant week series compare_n_weeks returns
\* exactly 1.0 or exactly 0.0 in every one of the nine categories.
C12_ConstantSeriesWinOrLose ==
    ConstantCompared =>
        \A cat \in CategorySet : IsOne(win_probs[cat]) \/ IsZero(win_probs[cat])

\* C12 amended: for two constant week series compare_n_weeks returns exactly
\* 1.0, 0.5 or 0.0 in every one of the nine categories, and 0.5 exactly when
\* there is a week and the two teams have equal values in the category.
C12_ConstantSeriesWinTieOrLose ==
    ConstantCompared =>
        \A cat \in CategorySet :
            /\ IsOne(win_probs[cat]) \/ IsHalf(win_probs[cat])
                  \/ IsZero(win_probs[cat])
            /\ IsHalf(win_probs[cat]) <=>
                  /\ Len(t1_week_list) >= 1
                  /\ CategoryTied(t1_week_list[1], t2_week_list[1], cat)

\* two constant series of the largest length with a tied and a won category
C12_Witness ==
    /\ ConstantCompared
    /\ Len(t1_week_list) = MaxCmpWeeks
    /\ t1_week_list # t2_week_list
    /\ \E cat \in CategorySet : IsHalf(win_probs[cat])
    /\ \E cat \in CategorySet : IsOne(win_probs[cat])

(***************************************************************************)
(* predict_all_player_probabilities (game_picker_lib.py 50-140)            *)
(***************************************************************************)
\* main.py 35-37
AVAILABILITY_SIM_YEAR_WEIGHTS == << <<2026, 1>>, <<2025, 1>>, <<2024, 1>> >>
PRIOR_PLAY_PERCENTAGE == <<85, 100>>
PRIOR_STRENGTH_IN_GAMES == 82

\* a row the loop of 100-109 adds to the player's virtual season: the
\* season is queried (87) and weights_map.get(season, 0) > 0
InVirtualSeason(g, pid, yw) ==
    /\ GameStatsTable[g].player_id = pid
    /\ \E i \in 1..Len(yw) : yw[i][1] = GameStatsTable[g].season
    /\ weights_map_get(yw, GameStatsTable[g].season) > 0

\* stats['gp']: sum over the seasons of games_played * weight
WeightedGamesPlayed(pid, yw) ==
    SumSeq([g \in 1..Len(GameStatsTable) |->
        IF InVirtualSeason(g, pid, yw) /\ ~played_game_filter(GameStatsTable[g])
        THEN weights_map_get(yw, GameStatsTable[g].season) ELSE 0])

\* total_games counting the played rows only
WeightedTotalGames_PlayedOnly(pid, yw) == WeightedGamesPlayed(pid, yw)

\* stats['tg']: sum over the seasons of total_games * weight, total_games
\* being count(GameStats.id), the DNP rows included
WeightedTotalGames(pid, yw) ==
    SumSeq([g \in 1..Len(GameStatsTable) |->
        IF InVirtualSeason(g, pid, yw)
        THEN weights_map_get(yw, GameStatsTable[g].season) ELSE 0])

\* stats['weight']: one weight for each (player, season) group of the query
SeasonWeightSum(pid, yw) ==
    SumSeq([g \in 1..Len(GameStatsTable) |->
        IF /\ InVirtualSeason(g, pid, yw)
           /\ \A h \in 1..(g - 1) :
                ~(/\ GameStatsTable[h].player_id = pid
                  /\ GameStatsTable[h].season = GameStatsTable[g].season)
        THEN weights_map_get(yw, GameStatsTable[g].season) ELSE 0])

\* max(0.0, min(1.0, prob)) of a rational with a positive denominator
Clamp(prob) ==
    IF prob[1] < 0 THEN <<0, 1>>
    ELSE IF prob[1] > prob[2] THEN <<1, 1>> ELSE prob

\* 122-136: (gp / weight + p0 * s0) / (tg / weight + s0), or the prior
PlayerProbability(pid, yw, prior_play_percentage, prior_strength_in_games) ==
    LET gp == WeightedGamesPlayed(pid, yw)
        tg == WeightedTotalGames(pid, yw)
        weight == SeasonWeightSum(pid, yw)
    IN  IF weight > 0
        THEN Clamp(<<prior_play_percentage[2] * gp
                        + prior_play_percentage[1] * prior_strength_in_games
                            * weight,
                     prior_play_percentage[2]
                        * (tg + prior_strength_in_games * weight)>>)
        ELSE Clamp(prior_play_percentage)

\* the results of one call: {} when one of the two queries raises (93-95,
\* 114-116), else the probability of every player of the Player table
predict_all_player_probabilities(yw, prior_play_percentage, prior_strength_in_games) ==
    { <<>>,
      [pid \in DBPlayers |->
          PlayerProbability(pid, yw, prior_play_percentage,
                            prior_strength_in_games)] }

(***************************************************************************)
(* SpecAvail: get_all_player_game_pools from its first call on, then       *)
(* pre_simulate_player_weeks                                               *)
(***************************************************************************)
\* main's list; a list with a zero weight; a list of a season without rows
AvailabilityYearWeightLists ==
    { AVAILABILITY_SIM_YEAR_WEIGHTS,
      << <<2026, 0>>, <<2025, 1>> >>,
      << <<2024, 1>> >> }

InitAvail ==
    /\ IdleExact /\ IdleScrape /\ IdleCull
    /\ pc = "avail_start"
    /\ player_ids \in PoolPlayerLists
    /\ num_games \in 0..MaxGames
    /\ include_dummy_games \in BOOLEAN
    /\ year_weights \in YearWeightLists
    /\ availability_year_weights \in AvailabilityYearWeightLists
    /\ availability_predictions = None
    /\ game_pools = None
    /\ n_sim_weeks \in 0..MaxPoolWeeks
    /\ player_weekly_stats_map = None
    /\ IdleCmp /\ IdleLeague /\ IdleTrade

\* main.py 51-56
PredictAvailability ==
    /\ pc = "avail_start"
    /\ availability_predictions' \in
            predict_all_player_probabilities(
                availability_year_weights, PRIOR_PLAY_PERCENTAGE,
                PRIOR_STRENGTH_IN_GAMES)
    /\ pc' = "pool_start"
    /\ UNCHANGED <<scrapeVars, cullVars, exactVars, player_ids, num_games, include_dummy_games, year_weights,
                   availability_year_weights, game_pools, n_sim_weeks,
                   player_weekly_stats_map, cmpVars, leagueVars, tradeVars>>

NextAvail ==
    \/ PredictAvailability
    \/ GenerateSamples
    \/ PreSimulate
    \/ PreSimulateRaises

SpecAvail == InitAvail /\ [][NextAvail]_vars

\* p = q for rationals
RatEq(p, q) == p[1] * q[2] = q[1] * p[2]

\* the rows a player has in the seasons of positive weight
RowsInWeightedSeasons(pid) ==
    { g \in 1..Len(GameStatsTable) :
        /\ GameStatsTable[g].player_id = pid
        /\ weights_map_get(availability_year_weights,
                           GameStatsTable[g].season) > 0 }

\* none of them is a played game
ZeroGamesPlayed(pid) ==
    \A g \in RowsInWeightedSeasons(pid) : played_game_filter(GameStatsTable[g])

Predicted == pc \in {"pool_start", "pools_ready", "presim_done", "presim_raised"}

\* C13 as stated: with p0 = 0.85 and s0 = 82 every player with zero games
\* played in the weighted seasons gets exactly 0.85.
C13_ZeroGamesPlayedGetsPrior ==
    Predicted =>
        \A pid \in DBPlayers :
            ZeroGamesPlayed(pid) =>
                /\ pid \in DOMAIN availability_predictions
                /\ RatEq(availability_predictions[pid], PRIOR_PLAY_PERCENTAGE)

\* C13 amended: with p0 = 0.85 and s0 = 82, unless a query raised and the
\* result is the empty dictionary, every player without a row in the seasons
\* of positive weight gets exactly 0.85, and a player whose rows in those
\* seasons are all games not played gets less than 0.85.
C13_AbsentPlayerGetsPrior ==
    Predicted =>
        \/ DOMAIN availability_predictions = {}
        \/ \A pid \in DBPlayers :
                /\ pid \in DOMAIN availability_predictions
                /\ RowsInWeightedSeasons(pid) = {} =>
                        RatEq(availability_predictions[pid],
                              PRIOR_PLAY_PERCENTAGE)
                /\ (RowsInWeightedSeasons(pid) # {} /\ ZeroGamesPlayed(pid)) =>
                        RatGreater(PRIOR_PLAY_PERCENTAGE,
                                   availability_predictions[pid])

\* a result with a player without rows at the prior, a player with unplayed
\* games only below it and a player with played games
C13_Witness ==
    /\ Predicted
    /\ DOMAIN availability_predictions = DBPlayers
    /\ \E pid \in DBPlayers :
            /\ RowsInWeightedSeasons(pid) = {}
            /\ RatEq(availability_predictions[pid], PRIOR_PLAY_PERCENTAGE)
    /\ \E pid \in DBPlayers :
            /\ RowsInWeightedSeasons(pid) # {} /\ ZeroGamesPlayed(pid)
            /\ RatGreater(PRIOR_PLAY_PERCENTAGE, availability_predictions[pid])
    /\ \E pid \in DBPlayers : ~ZeroGamesPlayed(pid)

(***************************************************************************)
(* Claims on the categories of compare_n_weeks, under SpecCmp              *)
(***************************************************************************)
\* the weeks in which the first series has strictly fewer turnovers
FewerTurnoverWeeks(first, second) ==
    { k \in 1..Len(first) : first[k]["to"] < second[k]["to"] }

EqualTurnoverWeeks(first, second) ==
    { k \in 1..Len(first) : first[k]["to"] = second[k]["to"] }

\* C14: in every compared week the team with the strictly lower turnover
\* total gets 1 for the turnover category and its opponent 0, whatever the
\* other eight categories: the turnover totals of the two directions count
\* 1 for each week with fewer turnovers, 0.5 for each week with equal ones
\* and nothing else.
C14_FewerTurnoversWin ==
    pc = "cmp_done" =>
        /\ win_probs["to"][1] =
              2 * Cardinality(FewerTurnoverWeeks(t1_week_list, t2_week_list))
              + Cardinality(EqualTurnoverWeeks(t1_week_list, t2_week_list))
        /\ rev_win_probs["to"][1] =
              2 * Cardinality(FewerTurnoverWeeks(t2_week_list, t1_week_list))
              + Cardinality(EqualTurnoverWeeks(t1_week_list, t2_week_list))

\* team 1 has fewer turnovers in every week, wins the category outright and
\* wins none of the other eight
C14_Witness ==
    /\ pc = "cmp_done"
    /\ Len(t1_week_list) = MaxCmpWeeks
    /\ FewerTurnoverWeeks(t1_week_list, t2_week_list) = 1..MaxCmpWeeks
    /\ IsOne(win_probs["to"]) /\ IsZero(rev_win_probs["to"])
    /\ \A cat \in CategorySet \ {"to"} : IsZero(win_probs[cat])

\* the percentage categories with their makes and attempts keys
PctCategories == { <<"fg%", "fgm", "fga">>, <<"ft%", "ftm", "fta">> }

NoAttempts(series, att) == \A k \in 1..Len(series) : series[k][att] = 0

\* the weeks in which the series has a percentage above 0
PositivePctWeeks(series, mk, att) ==
    { k \in 1..Len(series) : series[k][att] > 0 /\ series[k][mk] > 0 }

\* C15: a team with zero field-goal (free-throw) attempts in a week has the
\* percentage 0 for that week and the comparison completes: with no attempts
\* in any week it loses the category in the weeks the opponent's percentage
\* is above 0 and ties it in the others, and the opponent gets the rest.
C15_ZeroAttemptsIsZeroPct ==
    pc = "cmp_done" =>
        \A c \in PctCategories :
            NoAttempts(t1_week_list, c[3]) =>
                LET lost == PositivePctWeeks(t2_week_list, c[2], c[3])
                IN  /\ win_probs[c[1]][1] = Len(t1_week_list) - Cardinality(lost)
                    /\ rev_win_probs[c[1]][1] =
                          Len(t1_week_list) + Cardinality(lost)

\* team 1 without field-goal attempts in any week, against a percentage
\* above 0 in one week and of 0 in another
C15_Witness ==
    /\ pc = "cmp_done"
    /\ Len(t1_week_list) = MaxCmpWeeks
    /\ NoAttempts(t1_week_list, "fga")
    /\ Cardinality(PositivePctWeeks(t2_week_list, "fgm", "fga")) = 1
    /\ \E k \in 1..MaxCmpWeeks : t2_week_list[k]["fga"] = 0
    /\ win_probs["fg%"][1] = MaxCmpWeeks - 1

(***************************************************************************)
(* Claims on run_league_simulation, under Spec                             *)
(***************************************************************************)
\* every ordered pair of distinct teams with each scenario
OrderedMatchups ==
    { <<a, b, s>> \in (DOMAIN rosters_map) \X (DOMAIN rosters_map)
                        \X Range(SCENARIOS) : a # b }

\* C16: when run_league_simulation completes, the win-probability table has
\* an entry for every ordered pair of distinct teams and each scenario, and
\* in every category and overall the entry of (B, A, scenario) is 1 minus
\* the entry of (A, B, scenario).
C16_TableCompleteAndComplementary ==
    pc = "league_done" =>
        /\ DOMAIN all_h2h_probs = OrderedMatchups
        /\ \A key \in OrderedMatchups :
              /\ DOMAIN all_h2h_probs[key] = ResultKeys
              /\ \A cat \in ResultKeys :
                    SumsToOne(all_h2h_probs[key][cat],
                              all_h2h_probs[<<key[2], key[1], key[3]>>][cat])

\* a completed league of four teams with a probability strictly between 0
\* and 1 and a probability of 1
C16_Witness ==
    /\ pc = "league_done"
    /\ Cardinality(DOMAIN rosters_map) = 4
    /\ \E key \in OrderedMatchups, cat \in ResultKeys :
          /\ all_h2h_probs[key][cat][1] > 0
          /\ all_h2h_probs[key][cat][1] < all_h2h_probs[key][cat][2]
    /\ \E key \in OrderedMatchups : IsOne(all_h2h_probs[key]["overall"])

(***************************************************************************)
(* SpecTeam: build_team_weeks_from_players applied to a roster list, a     *)
(* PlayerWeekSeries map and W                                              *)
(***************************************************************************)
MaxRosterLen == 3

\* players 101 and 102 have a series; player 999 is not in the map
TeamPlayerIds == {101, 102, 999}

TeamRosterLists ==
    UNION { [1..len -> TeamPlayerIds] : len \in 0..MaxRosterLen }

InitTeam ==
    /\ IdleExact /\ IdleScrape /\ IdleCull
    /\ pc = "team_start"
    /\ t1_week_list = None /\ t2_week_list = None
    /\ win_probs = None /\ rev_win_probs = None
    /\ team_roster_ids \in TeamRosterLists
    /\ team_weekly_stats_list = None
    /\ team_full_roster = None /\ view_is_full_strength = None
    /\ n_sim_weeks \in 0..MaxSimWeeks
    /\ player_weekly_stats_map =
          [p \in TeamPlayerIds \ {999} |->
              [k \in 1..n_sim_weeks |-> SimWeek(p, k, 1)]]
    /\ IdlePool /\ IdleLeague /\ IdleTrade

BuildTeamWeeks ==
    /\ pc = "team_start"
    /\ team_weekly_stats_list' =
          build_team_weeks_from_players(
              team_roster_ids, player_weekly_stats_map, n_sim_weeks)
    /\ pc' = "team_done"
    /\ UNCHANGED <<scrapeVars, cullVars, exactVars, t1_week_list, t2_week_list, win_probs, rev_win_probs,
                   team_roster_ids, team_full_roster, view_is_full_strength,
                   n_sim_weeks, player_weekly_stats_map,
                   poolVars, leagueVars, tradeVars>>

NextTeam == BuildTeamWeeks

SpecTeam == InitTeam /\ [][NextTeam]_vars

\* the players of the roster list that have a simulated week k, one entry
\* for each position of the list
RECURSIVE StatSum(_, _, _)
StatSum(ids, k, key) ==
    IF ids = <<>> THEN 0
    ELSE (IF Head(ids) \in DOMAIN player_weekly_stats_map
             /\ k \in DOMAIN player_weekly_stats_map[Head(ids)]
          THEN player_weekly_stats_map[Head(ids)][k][key] ELSE 0)
         + StatSum(Tail(ids), k, key)

\* C17: build_team_weeks_from_players returns exactly W entries for any
\* roster list, and entry k is, for every stat key, the sum over the
\* roster's players of the player's simulated week k (players without a
\* series add nothing); the result is a function of the roster list and the
\* map alone.
C17_TeamWeeksAreSums ==
    pc = "team_done" =>
        /\ Len(team_weekly_stats_list) = n_sim_weeks
        /\ \A k \in 1..n_sim_weeks : \A key \in StatKeySet :
              team_weekly_stats_list[k][key] = StatSum(team_roster_ids, k, key)

\* a roster of the largest length with both players of the map and the
\* player without a series, built over the largest number of weeks
C17_Witness ==
    /\ pc = "team_done"
    /\ n_sim_weeks = MaxSimWeeks
    /\ Len(team_roster_ids) = MaxRosterLen
    /\ {101, 102, 999} \subseteq Range(team_roster_ids)
    /\ Len(team_weekly_stats_list) = MaxSimWeeks
    /\ team_weekly_stats_list[1] # team_weekly_stats_list[MaxSimWeeks]

(***************************************************************************)
(* Claims on the report of find_trades, under Spec                         *)
(***************************************************************************)
\* sorted_trades[:15] (analysis_lib.py 695)
TopTradesShown == 15

ReportedTrades ==
    SubSeq(sorted_trades, 1,
           IF Len(sorted_trades) < TopTradesShown
           THEN Len(sorted_trades) ELSE TopTradesShown)

TradesReported ==
    InFindTrades /\ pc = "done" /\ successful_trades # <<>>

\* C18: the accepted trades are reported in non-increasing order of combined
\* gain, the combined gain of a trade being the sum over both scenarios of
\* team 1's and team 2's summed gains, and no accepted trade left out of
\* the reported top results has a larger combined gain than a reported one.
C18_ReportSortedByCombinedGain ==
    TradesReported =>
        /\ Len(sorted_trades) = Len(successful_trades)
        /\ Range(sorted_trades) = Range(successful_trades)
        /\ \A i, j \in 1..Len(ReportedTrades) :
              i < j => ReportedTrades[i].combined_gain
                          >= ReportedTrades[j].combined_gain
        /\ \A i \in 1..Len(sorted_trades) :
              sorted_trades[i].combined_gain =
                  SumSeq([k \in 1..Len(SCENARIOS) |->
                      sorted_trades[i].results[SCENARIOS[k]].t1_gain_sum
                        + sorted_trades[i].results[SCENARIOS[k]].t2_gain_sum])
        /\ \A left \in Range(successful_trades) \ Range(ReportedTrades) :
              \A shown \in Range(ReportedTrades) :
                  left.combined_gain <= shown.combined_gain

\* a report of trades with different combined gains that were not found in
\* the order of their gains
C18_Witness ==
    /\ TradesReported
    /\ sorted_trades # successful_trades
    /\ sorted_trades[1].combined_gain
          > sorted_trades[Len(sorted_trades)].combined_gain

\* a report that leaves accepted trades out
C18_WitnessLeftOut ==
    /\ TradesReported
    /\ Len(sorted_trades) > TopTradesShown
    /\ sorted_trades[1].combined_gain
          > sorted_trades[Len(sorted_trades)].combined_gain

(***************************************************************************)
(* Claims on the overall outcome of compare_n_weeks, under SpecCmp         *)
(***************************************************************************)
\* team 1's score of week k in halves: 2 for a category won, 1 for a tie
WeekScore(k) ==
    LET wins == WeeklyCategoryWins(t1_week_list[k], t2_week_list[k])
    IN  SumSeq([i \in 1..Len(CATEGORIES) |-> wins[CATEGORIES[i]]])

WonWeeks == { k \in 1..Len(t1_week_list) : WeekScore(k) > 9 }

TiedWeeks == { k \in 1..Len(t1_week_list) : WeekScore(k) = 9 }

\* C19: the week's overall outcome is 1.0 for a score above 4.5, 0.5 for a
\* score of exactly 4.5 and 0.0 otherwise, and the overall win probability
\* is the mean of the outcomes over the W weeks, a value in [0, 1].
C19_OverallIsMeanOfWeekOutcomes ==
    pc = "cmp_done" =>
        /\ win_probs["overall"][1] =
              2 * Cardinality(WonWeeks) + Cardinality(TiedWeeks)
        /\ win_probs["overall"][2] =
              (IF Len(t1_week_list) = 0 THEN 1 ELSE 2 * Len(t1_week_list))
        /\ win_probs["overall"][1] >= 0
        /\ win_probs["overall"][1] <= win_probs["overall"][2]

\* a comparison over the largest number of weeks with a week won, a week
\* tied at exactly 4.5 and so an overall probability of 0.75
C19_Witness ==
    /\ pc = "cmp_done"
    /\ Len(t1_week_list) = MaxCmpWeeks
    /\ WonWeeks # {} /\ TiedWeeks # {}
    /\ win_probs["overall"][1] > Len(t1_week_list)
    /\ win_probs["overall"][1] < win_probs["overall"][2]

(***************************************************************************)
(* Claims on the draws of generate_weighted_game_samples, under SpecPool   *)
(***************************************************************************)
SamplesDrawn == pc = "pools_ready" /\ DOMAIN game_pools # {}

\* the pool of the player in the call that was made
PoolOf(pid) == PlayerGamePool(pid, player_ids, year_weights)

\* a uniform draw can exceed the player's availability probability
DrawCanExceed(pid) ==
    \E u \in UniformDraws :
        RatGreater(u, AvailabilityOf(availability_predictions, pid))

\* C20: a draw of a player is a DNP game exactly when the player's pool is
\* empty or the flag is on and the uniform draw exceeds the player's
\* availability probability; every other draw is a real game of that
\* player's pool. With the flag off and a pool that is not empty no sample
\* is a DNP.
C20_DummyOnlyWhenUnavailable ==
    SamplesDrawn =>
        \A pid \in Range(player_ids) :
            \A i \in 1..Len(game_pools[pid]) :
                IF game_pools[pid][i] = DummyGame
                THEN \/ PoolOf(pid) = <<>>
                     \/ include_dummy_games /\ DrawCanExceed(pid)
                ELSE /\ PoolOf(pid) # <<>>
                     /\ game_pools[pid][i] \in Range(PoolOf(pid))

\* the flag is on and a player with games has a DNP and a real game among
\* the largest number of samples, a player without games DNP games only
C20_Witness ==
    /\ SamplesDrawn
    /\ include_dummy_games
    /\ num_games = MaxGames
    /\ \E pid \in Range(player_ids) :
          /\ PoolOf(pid) # <<>>
          /\ DummyGame \in Range(game_pools[pid])
          /\ Range(game_pools[pid]) \cap Range(PoolOf(pid)) # {}
    /\ \E pid \in Range(player_ids) :
          /\ PoolOf(pid) = <<>>
          /\ Range(game_pools[pid]) = {DummyGame}

\* the flag is off and a player with games has real games only
C20_WitnessFlagOff ==
    /\ SamplesDrawn
    /\ ~include_dummy_games
    /\ num_games = MaxGames
    /\ \E pid \in Range(player_ids) :
          /\ PoolOf(pid) # <<>>
          /\ DrawCanExceed(pid)
          /\ DummyGame \notin Range(game_pools[pid])

(***************************************************************************)
(* SpecFilter: filter_roster applied to a full roster and a view, then     *)
(* build_team_weeks_from_players on the active roster (analysis_lib.py     *)
(* 221-235 without the validation)                                         *)
(***************************************************************************)
\* row[2].strip() of the roster file: no status, the two known values, a
\* value in another case and another word
RosterStatuses == {None, "INJ", "DROP", "inj", "OUT"}

\* the player of position i of the full roster; players 101 and 102 have a
\* series
FilterPlayerId(i) == 100 + i

FullRosters ==
    UNION { { [i \in 1..len |-> <<FilterPlayerId(i), st[i]>>] :
                st \in [1..len -> RosterStatuses] } :
            len \in 0..MaxRosterLen }

InitFilter ==
    /\ IdleExact /\ IdleScrape /\ IdleCull
    /\ pc = "filter_start"
    /\ t1_week_list = None /\ t2_week_list = None
    /\ win_probs = None /\ rev_win_probs = None
    /\ team_full_roster \in FullRosters
    /\ view_is_full_strength \in BOOLEAN
    /\ team_roster_ids = None
    /\ team_weekly_stats_list = None
    /\ n_sim_weeks \in 1..MaxSimWeeks
    /\ player_weekly_stats_map =
          [p \in TeamPlayerIds \ {999} |->
              [k \in 1..n_sim_weeks |-> SimWeek(p, k, 1)]]
    /\ IdlePool /\ IdleLeague /\ IdleTrade

FilterRoster ==
    /\ pc = "filter_start"
    /\ team_roster_ids' = filter_roster(team_full_roster, view_is_full_strength)
    /\ pc' = "team_start"
    /\ UNCHANGED <<scrapeVars, cullVars, exactVars, t1_week_list, t2_week_list, win_probs, rev_win_probs,
                   team_weekly_stats_list, team_full_roster,
                   view_is_full_strength, n_sim_weeks, player_weekly_stats_map,
                   poolVars, leagueVars, tradeVars>>

NextFilter == FilterRoster \/ BuildTeamWeeks

SpecFilter == InitFilter /\ [][NextFilter]_vars

\* the status keeps the player in the view
ActiveInView(status, full_strength) ==
    IF full_strength THEN status # "DROP" ELSE status # "INJ"

\* the ids of the active players of a roster, in roster order
RECURSIVE ActivePlayers(_, _)
ActivePlayers(roster, full_strength) ==
    IF roster = <<>> THEN <<>>
    ELSE (IF ActiveInView(Head(roster)[2], full_strength)
          THEN <<Head(roster)[1]>> ELSE <<>>)
         \o ActivePlayers(Tail(roster), full_strength)

Filtered == pc \in {"team_start", "team_done"}

\* C21: filter_roster returns, in roster order, exactly the players whose
\* status is not DROP in the FullStrength view and exactly the players whose
\* status is not INJ in the Current view; a player without a status or with
\* any other status is active in both views.
C21_FilterKeepsActivePlayers ==
    Filtered =>
        /\ team_roster_ids =
              ActivePlayers(team_full_roster, view_is_full_strength)
        /\ \A i \in 1..Len(team_full_roster) :
              team_full_roster[i][2] \notin {"INJ", "DROP"} =>
                  team_full_roster[i][1] \in Range(team_roster_ids)

\* the Current view of a roster of the largest length with an INJ player
\* left out, a DROP player kept and a player of another status kept
C21_Witness ==
    /\ Filtered
    /\ ~view_is_full_strength
    /\ Len(team_full_roster) = MaxRosterLen
    /\ \E i, j, k \in 1..MaxRosterLen :
          /\ team_full_roster[i][2] = "INJ"
          /\ team_full_roster[j][2] = "DROP"
          /\ team_full_roster[k][2] \in {"inj", "OUT"}
          /\ team_roster_ids = <<team_full_roster[IF j < k THEN j ELSE k][1],
                                 team_full_roster[IF j < k THEN k ELSE j][1]>>

\* the stored row is a played game of the player in a season the weight
\* list gives a weight above 0
OwnPlayedWeightedGame(g, pid) ==
    /\ g \in 1..Len(GameStatsTable)
    /\ GameStatsTable[g].player_id = pid
    /\ GameStatsTable[g].minutes_played \notin {None, "", "00:00"}
    /\ \E i \in 1..Len(year_weights) :
          year_weights[i][1] = GameStatsTable[g].season
    /\ weights_map_get(year_weights, GameStatsTable[g].season) > 0

\* C22: every real (non-DNP) game returned for a player is one of that
\* player's own played games from a season listed in the weight list with a
\* weight above 0; no game of another player, of an unlisted or zero-weight
\* season, and no DNP record is returned as a real sample.
C22_RealSamplesAreOwnPlayedGames ==
    SamplesDrawn =>
        \A pid \in Range(player_ids) :
            \A i \in 1..Len(game_pools[pid]) :
                game_pools[pid][i] # DummyGame =>
                    OwnPlayedWeightedGame(game_pools[pid][i], pid)

\* real samples of a player who also has a DNP row in a listed season and a
\* played game in a season of weight 0
C22_Witness ==
    /\ SamplesDrawn
    /\ num_games = MaxGames
    /\ \E pid \in Range(player_ids) :
          /\ \A i \in 1..MaxGames : game_pools[pid][i] # DummyGame
          /\ \E g \in 1..Len(GameStatsTable) :
                /\ GameStatsTable[g].player_id = pid
                /\ GameStatsTable[g].minutes_played = "00:00"
                /\ weights_map_get(year_weights, GameStatsTable[g].season) > 0
          /\ \E g \in 1..Len(GameStatsTable) :
                /\ GameStatsTable[g].player_id = pid
                /\ GameStatsTable[g].minutes_played \notin {None, "", "00:00"}
                /\ \E i \in 1..Len(year_weights) :
                      /\ year_weights[i][1] = GameStatsTable[g].season
                      /\ year_weights[i][2] = 0

(***************************************************************************)
(* SpecSize: the trade command over leagues whose rosters all have the     *)
(* expected size in both scenarios: the league of SpecDom, the same league *)
(* with a player listed twice on team 1's roster (two rows of the roster   *)
(* file matched to one player id), and a league with the free agent pool   *)
(***************************************************************************)
\* rows 2 and 3 of Alex's roster are matched to the same player
TwiceListedRoster ==
    [i \in 1..Len(DomLeague["Alex"]) |->
        IF i = 3 THEN DomLeague["Alex"][2] ELSE DomLeague["Alex"][i]]

SizeLeagues ==
    { DomLeague,
      [t \in {"Alex", "Bo", "Cy"} |->
          IF t = "Alex" THEN TwiceListedRoster ELSE DomLeague[t]],
      [t \in {"Alex", "Bo", "Cy", FREE_AGENTS} |->
          IF t = FREE_AGENTS THEN Roster(400, 1, 0, 0) ELSE DomLeague[t]] }

InitSize ==
    /\ IdleExact /\ IdleScrape /\ IdleCull
    /\ pc = "build_teams"
    /\ rosters_map \in SizeLeagues
    /\ n_sim_weeks \in 1..MaxSimWeeks
    /\ player_weekly_stats_map = PreSimulatedMap(rosters_map, 1, n_sim_weeks)
    /\ all_team_weekly_stats = <<>>
    /\ all_h2h_probs = <<>>
    /\ args = NoArgs
    /\ top_fa_ids = <<>> /\ t1_combos = <<>> /\ t2_combos = <<>>
    /\ checked_count = 0
    /\ successful_trades = <<>> /\ sorted_trades = <<>>
    /\ IdleCmp /\ IdlePool

SpecSize == InitSize /\ [][Next]_vars

\* the candidate gets past CHECK 1 and CHECK 2
PassesPreChecks(cand) ==
    /\ args.required_players = <<>>
          \/ Range(args.required_players) \subseteq Range(cand[1]) \cup Range(cand[2])
    /\ StatusSymmetric(t1_full_roster_tuples, t2_full_roster_tuples,
                       args.team2_name, cand[1], cand[2])

NoPlayerTwice(tuples) ==
    \A i, j \in 1..Len(tuples) : i # j => tuples[i][1] # tuples[j][1]

SharesNoPlayer ==
    { t1_full_roster_tuples[i][1] : i \in 1..Len(t1_full_roster_tuples) }
        \cap { t2_full_roster_tuples[i][1] : i \in 1..Len(t2_full_roster_tuples) }
        = {}

\* the post-trade active rosters of the real teams have the expected size
NewRosterSizesRight(cand) ==
    \A s \in Range(SCENARIOS) :
        /\ Len(T1NewRoster(s, cand[1], cand[2])) = EXPECTED_ROSTER_SIZE
        /\ ~is_free_agent_mode =>
              Len(T2NewRoster(s, cand[1], cand[2])) = EXPECTED_ROSTER_SIZE

\* C23 as stated: with baseline rosters of the expected size that share no
\* player, every candidate that passes the pre-checks has post-trade active
\* rosters of the expected size, and the search never reaches the abort.
C23_SearchNeverAborts ==
    (InFindTrades /\ SharesNoPlayer) =>
        /\ pc # "exit"
        /\ \A c \in 1..checked_count :
              PassesPreChecks(CandidateAt(c)) =>
                  NewRosterSizesRight(CandidateAt(c))

\* C23 amended: with baseline rosters of the expected size that share no
\* player and list no player twice, every candidate that passes the
\* pre-checks has post-trade active rosters of the expected size, and the
\* search never reaches the abort.
C23_SearchNeverAbortsWithoutRepeats ==
    (/\ InFindTrades /\ SharesNoPlayer
     /\ NoPlayerTwice(t1_full_roster_tuples)
     /\ NoPlayerTwice(t2_full_roster_tuples)) =>
        /\ pc # "exit"
        /\ \A c \in 1..checked_count :
              PassesPreChecks(CandidateAt(c)) =>
                  NewRosterSizesRight(CandidateAt(c))

\* a finished search against the free agent pool in which a DROP player
\* left team 1 for a free agent
C23_Witness ==
    /\ InFindTrades /\ pc = "done" /\ is_free_agent_mode
    /\ NoPlayerTwice(t1_full_roster_tuples)
    /\ checked_count = total_trades_to_check
    /\ \E c \in 1..checked_count :
          /\ PassesPreChecks(CandidateAt(c))
          /\ DropsExitingT1(CandidateAt(c)[1]) > 0
          /\ NewRosterSizesRight(CandidateAt(c))

\* a finished search between two real teams in which INJ and DROP players
\* changed sides
C23_WitnessRealTeams ==
    /\ InFindTrades /\ pc = "done" /\ ~is_free_agent_mode
    /\ NoPlayerTwice(t1_full_roster_tuples)
    /\ checked_count = total_trades_to_check
    /\ \E c, d \in 1..checked_count :
          /\ PassesPreChecks(CandidateAt(c)) /\ PassesPreChecks(CandidateAt(d))
          /\ PlayerStatus(CandidateAt(c)[1][1], None) = "INJ"
          /\ PlayerStatus(CandidateAt(d)[1][1], None) = "DROP"

\* the search has aborted on a candidate that passed the pre-checks
C23_WitnessAbort ==
    /\ InFindTrades /\ pc = "exit"
    /\ PassesPreChecks(CandidateAt(checked_count))
    /\ ~NoPlayerTwice(t1_full_roster_tuples)

(***************************************************************************)
(* Claims on the candidate loop of find_trades                             *)
(***************************************************************************)
\* what every trade hypothesis reads
HypothesisInputs ==
    <<rosters_map, all_h2h_probs, all_team_weekly_stats,
      player_weekly_stats_map, n_sim_weeks, args, top_fa_ids,
      t1_combos, t2_combos>>

\* the candidates the loop accepts when each is evaluated on the present
\* values of the inputs
AcceptableCandidates ==
    { c \in 1..total_trades_to_check :
        CandidateOutcome(CandidateAt(c)[1], CandidateAt(c)[2]) = "accept" }

SearchFinished ==
    InFindTrades /\ pc = "done" /\ checked_count = total_trades_to_check
        /\ total_trades_to_check > 0

\* C24: a step of the candidate loop changes neither the roster map, nor the
\* baseline win-probability table, nor a team's baseline week series, nor
\* anything else a later hypothesis reads; so the accepted trades are the
\* candidates that are acceptable on the original inputs, in the order of
\* the loop, whatever was evaluated before them.
C24_HypothesesLeaveInputsAlone ==
    /\ [][pc = "trade_loop" => UNCHANGED HypothesisInputs]_vars
    /\ [](SearchFinished =>
            /\ Len(successful_trades) = Cardinality(AcceptableCandidates)
            /\ \A i \in 1..Len(successful_trades) :
                  \E c \in AcceptableCandidates :
                      /\ CandidateAt(c) = <<successful_trades[i].t1_gives,
                                            successful_trades[i].t2_gives>>
                      /\ successful_trades[i] =
                            TradeEntry(CandidateAt(c)[1], CandidateAt(c)[2]))

\* a finished search that accepted several candidates and turned others
\* down, some after an accepted one
C24_Witness ==
    /\ SearchFinished
    /\ Len(successful_trades) >= 2
    /\ LET first == successful_trades[1]
       IN  <<first.t1_gives, first.t2_gives>> # CandidateAt(1)
    /\ LET last == successful_trades[Len(successful_trades)]
       IN  <<last.t1_gives, last.t2_gives>> # CandidateAt(total_trades_to_check)

(***************************************************************************)
(* SpecReq: find_trades called with a required_players list, over the      *)
(* leagues of SpecDom                                                      *)
(***************************************************************************)
\* one player of team 1, one of each team, a DROP player of each team, and
\* a player of neither team's roster
RequiredSubsets == { <<108>>, <<108, 206>>, <<114, 214>>, <<999>> }

RequiredTradeSizes == {1}

FindTradesRequired ==
    /\ pc = "league_done"
    /\ FindTradesCall(RequiredTradeSizes, RequiredSubsets)

NextReq ==
    \/ BuildTeamData
    \/ CompareMatchups
    \/ FindTradesRequired
    \/ CheckCandidate
    \/ ReportTrades

SpecReq == InitDom /\ [][NextReq]_vars

\* every required player leaves team 1 or team 2 in the candidate
InvolvesRequired(cand) ==
    \A i \in 1..Len(args.required_players) :
        \/ \E k \in 1..Len(cand[1]) : cand[1][k] = args.required_players[i]
        \/ \E k \in 1..Len(cand[2]) : cand[2][k] = args.required_players[i]

\* the candidate passes what follows CHECK 1: CHECK 2 and the criteria of
\* both scenarios
AcceptedAfterCheck1(cand) ==
    /\ StatusSymmetric(t1_full_roster_tuples, t2_full_roster_tuples,
                       args.team2_name, cand[1], cand[2])
    /\ \A s \in Range(SCENARIOS) :
          ScenarioMeets(ScenarioResult(s, cand[1], cand[2]))

\* C25: with a required-player subset, every accepted trade involves every
\* required player, and no candidate that involves them all is skipped by
\* the required-player check: the accepted trades are the candidates that
\* involve them all and pass the later checks.
C25_AcceptedInvolveRequired ==
    (InFindTrades /\ args.required_players # <<>>) =>
        /\ \A i \in 1..Len(successful_trades) :
              InvolvesRequired(<<successful_trades[i].t1_gives,
                                 successful_trades[i].t2_gives>>)
        /\ SearchFinished =>
              { <<successful_trades[i].t1_gives, successful_trades[i].t2_gives>> :
                    i \in 1..Len(successful_trades) }
              = { CandidateAt(c) : c \in
                    { d \in 1..total_trades_to_check :
                        /\ InvolvesRequired(CandidateAt(d))
                        /\ AcceptedAfterCheck1(CandidateAt(d)) } }

\* a finished search with two required players, one of each team, that
\* accepted the one trade of the two
C25_Witness ==
    /\ SearchFinished
    /\ Len(args.required_players) = 2
    /\ Len(successful_trades) = 1
    /\ InvolvesRequired(<<successful_trades[1].t1_gives,
                          successful_trades[1].t2_gives>>)
    /\ \E c \in 1..total_trades_to_check :
          ~InvolvesRequired(CandidateAt(c)) /\ AcceptedAfterCheck1(CandidateAt(c))

(***************************************************************************)
(* Claims on the weeks of pre_simulate_player_weeks, under SpecPool         *)
(***************************************************************************)
WeeksSimulated == pc = "presim_done"

\* the column of GameStats a stat key is summed from
GameField(row, key) ==
    CASE key = "pts" -> row.points
      [] key = "reb" -> row.total_rebounds
      [] key = "ast" -> row.assists
      [] key = "stl" -> row.steals
      [] key = "blk" -> row.blocks
      [] key = "tpm" -> row.three_pointers
      [] key = "to"  -> row.turnovers
      [] key = "fga" -> row.field_goal_attempts
      [] key = "fgm" -> row.field_goals
      [] key = "fta" -> row.free_throw_attempts
      [] key = "ftm" -> row.free_throws

\* a missing value counts as 0
CountedStat(g, key) ==
    IF GameField(GameRow(g), key) = NoneNum THEN 0
    ELSE GameField(GameRow(g), key)

\* at is a choice of pairwise distinct positions of the pool
DistinctPositions(at) ==
    \A i, j \in DOMAIN at : i # j => at[i] # at[j]

\* week is the sum of the games of the pool at the positions of at
SumOfGamesAt(week, pool, at) ==
    \A key \in StatKeySet :
        week[key] = SumSeq([i \in DOMAIN at |-> CountedStat(pool[at[i]], key)])

WeekOfDistinctGames(week, pool) ==
    \E how_many \in {3, 4} :
        \E at \in [1..how_many -> 1..Len(pool)] :
            DistinctPositions(at) /\ SumOfGamesAt(week, pool, at)

\* C26: for a player with a non-empty pool, every simulated week is, stat by
\* stat, the sum over 3 or over 4 games at pairwise distinct positions of
\* the player's pool, a missing stat value counted as 0.
C26_WeekSumsDistinctPoolGames ==
    WeeksSimulated =>
        \A pid \in DOMAIN player_weekly_stats_map :
            PoolGet(game_pools, pid) # <<>> =>
                \A k \in 1..Len(player_weekly_stats_map[pid]) :
                    WeekOfDistinctGames(player_weekly_stats_map[pid][k],
                                        game_pools[pid])

\* a pool of four games that holds two different games, one of them with a
\* missing value, and a week of three of the four
C26_Witness ==
    /\ WeeksSimulated
    /\ \E pid \in DOMAIN player_weekly_stats_map :
          /\ Len(PoolGet(game_pools, pid)) = 4
          /\ \E i, j \in 1..4 :
                /\ game_pools[pid][i] # game_pools[pid][j]
                /\ \E key \in StatKeySet :
                      GameField(GameRow(game_pools[pid][i]), key) = NoneNum
          /\ \E k \in 1..Len(player_weekly_stats_map[pid]) :
                \E at \in [1..3 -> 1..4] :
                    /\ DistinctPositions(at)
                    /\ SumOfGamesAt(player_weekly_stats_map[pid][k],
                                    game_pools[pid], at)
                    /\ \E key \in StatKeySet :
                          player_weekly_stats_map[pid][k][key] > 0

(***************************************************************************)
(* Claims on the Free-Agent mode of find_trades, under Spec                *)
(***************************************************************************)
FreeAgentMode == InFindTrades /\ args.team2_name = FREE_AGENTS

\* the player has an INJ row on team 1's roster
InjuredOnTeam1(p) ==
    \E i \in 1..Len(rosters_map[args.team1_name]) :
        rosters_map[args.team1_name][i] = <<p, "INJ">>

\* an INJ player of team 1 is among the players leaving it
InjuredLeavesTeam1(t1_out) ==
    \E k \in 1..Len(t1_out) : InjuredOnTeam1(t1_out[k])

\* the pass of the loop over the next candidate goes on to the candidate
\* after it and accepts nothing
NextCandidateSkipped ==
    /\ pc' = "trade_loop"
    /\ checked_count' = checked_count + 1
    /\ successful_trades' = successful_trades

\* C27: in Free-Agent mode, whatever allow_trading_injured is, no accepted
\* trade has an INJ player leaving team 1, and the pass of the loop over a
\* candidate in which one leaves is a skip: nothing is accepted and the
\* search goes on.
C27_NoInjuredToFreeAgents ==
    /\ [](FreeAgentMode =>
            \A i \in 1..Len(successful_trades) :
                ~InjuredLeavesTeam1(successful_trades[i].t1_gives))
    /\ [][(FreeAgentMode /\ pc = "trade_loop"
            /\ checked_count < total_trades_to_check
            /\ InjuredLeavesTeam1(CandidateAt(checked_count + 1)[1]))
          => NextCandidateSkipped]_vars

\* a finished search over the free agents with injured players allowed in
\* trades, that met a candidate giving up an INJ player and accepted a trade
C27_Witness ==
    /\ FreeAgentMode /\ pc = "done" /\ args.allow_trading_injured
    /\ successful_trades # <<>>
    /\ \E c \in 1..checked_count : InjuredLeavesTeam1(CandidateAt(c)[1])

(***************************************************************************)
(* analyze_exact_trade (analysis_lib.py 755-1079)                          *)
(***************************************************************************)
InExactTrade == pc \in {"exact_scenarios", "exact_done", "exit"} /\ args.command = "exact"

\* t2_full_roster_tuples of 799-810
ExactTeam2Roster ==
    IF args.team2_name = FREE_AGENTS
    THEN [i \in 1..Len(args.t2_players_out) |-> <<args.t2_players_out[i], "Active">>]
    ELSE rosters_map[args.team2_name]

\* player_status_map.get(p, default) of 813-817, 880, 913
ExactStatus(p, default) ==
    StatusGet(rosters_map[args.team1_name], ExactTeam2Roster, p, default)

t1_drops_set == Range(args.t1_players_to_drop_post_trade)

\* 820-827
all_exiting_t1 == Range(args.t1_players_out) \cup t1_drops_set

all_entering_t1 == Range(args.t2_players_out) \cup Range(args.t1_free_agents_to_add)

\* 866
t1_full_base_ids ==
    { rosters_map[args.team1_name][i][1] :
        i \in 1..Len(rosters_map[args.team1_name]) }

\* faulty variant: only the players sent in the trade leave the roster
t1_new_roster_all_KeepsDrops ==
    (t1_full_base_ids \ Range(args.t1_players_out))
        \cup (all_entering_t1 \ Range(args.t1_players_out))

\* 872-874: the full roster without the exiting players, then the entering
\* players that are not exiting
t1_new_roster_all ==
    (t1_full_base_ids \ all_exiting_t1)
        \cup (all_entering_t1 \ all_exiting_t1)

\* current_status of 880-885
current_status(p) ==
    IF p \in t1_drops_set THEN "DROP" ELSE ExactStatus(p, "Active")

\* t1_new_roster of 877-892; the loop runs over a set, the model keeps the set
ExactT1NewRoster(scenario) ==
    { p \in t1_new_roster_all : ActiveIn(scenario, current_status(p)) }

\* t2_new_roster of 867-869, 909-917
ExactT2NewRoster(scenario) ==
    IF args.team2_name = FREE_AGENTS THEN <<>>
    ELSE LET base == filter_roster(rosters_map[args.team2_name],
                                   scenario = "FullStrength")
             stay == SelectSeq(base, LAMBDA p : p \notin Range(args.t2_players_out))
         IN  stay \o SelectSeq(args.t1_players_out,
                        LAMBDA p : ActiveIn(scenario, ExactStatus(p, None)))

\* the players of a set as a list, in increasing order
RECURSIVE IdsInOrder(_)
IdsInOrder(ids) ==
    IF ids = {} THEN <<>>
    ELSE LET least == CHOOSE p \in ids : \A q \in ids : p <= q
         IN  <<least>> \o IdsInOrder(ids \ {least})

\* VALIDATION INJECTION (932-934)
ExactRostersPass(scenario) ==
    /\ RosterPasses(args.team1_name, IdsInOrder(ExactT1NewRoster(scenario)))
    /\ args.team2_name = FREE_AGENTS
        \/ RosterPasses(args.team2_name, ExactT2NewRoster(scenario))

\* Fast Sim and the comparisons (937-1002): those of find_trades
ExactScenarioResult(scenario) ==
    Bind(<<build_team_weeks_from_players(
                IdsInOrder(ExactT1NewRoster(scenario)),
                player_weekly_stats_map, n_sim_weeks),
           IF args.team2_name = FREE_AGENTS THEN <<>>
           ELSE build_team_weeks_from_players(
                    ExactT2NewRoster(scenario),
                    player_weekly_stats_map, n_sim_weeks)>>,
         LAMBDA weeks : ScenarioGains(scenario, weeks[1], weeks[2]))

(***************************************************************************)
(* SpecExact: run_league_simulation, then analyze_exact_trade              *)
(***************************************************************************)
\* players team 1 sends: nobody, a player without status, the INJ player
ExactTeam1Out == { <<>>, <<101>>, <<113>> }

\* players team 2 sends, by team 2
ExactTeam2Out(team2) ==
    IF team2 = FREE_AGENTS THEN { <<>>, <<904>> }
    ELSE { <<>>, <<201>>, <<213>> }

\* post-trade drops: nobody, a player without status, the INJ player, the
\* DROP player, the player received in the trade
ExactDrops == { <<>>, <<102>>, <<113>>, <<114>>, <<201>> }

ExactFreeAgentAdds == { <<>>, <<904>> }

\* the call, down to the baseline (755-860)
ExactTradeStart ==
    /\ pc = "league_done"
    /\ \E team2 \in {"Bo", FREE_AGENTS}, out1 \in ExactTeam1Out,
          drops \in ExactDrops, adds \in ExactFreeAgentAdds :
          \E out2 \in ExactTeam2Out(team2) :
            args' = [command |-> "exact", team1_name |-> "Alex",
                     t1_players_out |-> out1, team2_name |-> team2,
                     t2_players_out |-> out2,
                     t1_players_to_drop_post_trade |-> drops,
                     t1_free_agents_to_add |-> adds]
    /\ all_team_weekly_stats' =
            IF args'.team2_name = FREE_AGENTS
                /\ FREE_AGENTS \notin DOMAIN all_team_weekly_stats
            THEN WithFreeAgentsEntry(all_team_weekly_stats)
            ELSE all_team_weekly_stats
    /\ pc' = "exact_scenarios"
    /\ UNCHANGED <<scrapeVars, cullVars, exactVars, rosters_map, all_h2h_probs, n_sim_weeks,
                   player_weekly_stats_map, top_fa_ids, t1_combos, t2_combos,
                   checked_count, successful_trades, sorted_trades,
                   cmpVars, poolVars>>

\* one pass of the loop over the scenarios (863-1002): the rosters are
\* printed, validated, and the scenario's result is stored; after the last
\* pass the report of 1004-1079 is printed
ExactScenario ==
    /\ pc = "exact_scenarios"
    /\ LET todo == SelectSeq(SCENARIOS, LAMBDA sc : sc \notin DOMAIN new_rosters)
           scenario == Head(todo)
           passes == ExactRostersPass(scenario)
       IN  /\ new_rosters' =
                [sc \in DOMAIN new_rosters \cup {scenario} |->
                    IF sc = scenario
                    THEN [t1_new_roster |-> ExactT1NewRoster(scenario),
                          t2_new_roster |-> ExactT2NewRoster(scenario)]
                    ELSE new_rosters[sc]]
           /\ trade_results_by_scenario' =
                IF passes
                THEN [sc \in DOMAIN trade_results_by_scenario \cup {scenario} |->
                        IF sc = scenario THEN ExactScenarioResult(scenario)
                        ELSE trade_results_by_scenario[sc]]
                ELSE trade_results_by_scenario
           /\ pc' = IF ~passes THEN "exit"
                    ELSE IF Len(todo) = 1 THEN "exact_done"
                    ELSE "exact_scenarios"
    /\ UNCHANGED <<scrapeVars, cullVars, rosters_map, all_team_weekly_stats, all_h2h_probs,
                   n_sim_weeks, player_weekly_stats_map, args, top_fa_ids,
                   t1_combos, t2_combos, checked_count, successful_trades,
                   sorted_trades, cmpVars, poolVars>>

NextExact ==
    \/ BuildTeamData
    \/ CompareMatchups
    \/ ExactTradeStart
    \/ ExactScenario

SpecExact == InitDom /\ [][NextExact]_vars

\* the dropped players that are on team 1 after the trade: its own players
\* that it did not send, and the players it received
DroppedFromTeam1 ==
    { p \in t1_drops_set :
        \/ p \in t1_full_base_ids \ Range(args.t1_players_out)
        \/ p \in Range(args.t2_players_out) }

C28_WitnessInjuredDropped ==
    /\ InExactTrade /\ pc = "exit"
    /\ args.t1_players_to_drop_post_trade = <<113>>
    /\ args.t1_free_agents_to_add = <<>>
    /\ DOMAIN new_rosters = {"FullStrength"}

(***************************************************************************)
(* scraper_lib.py: scrape_game_logs_for_season (39-85) and                  *)
(* BasketballScraper._save_games_to_db (334-377), on the session of        *)
(* database.py 13 (autocommit=False, autoflush=False)                      *)
(***************************************************************************)
\* a scraped game: its date and one stat
ScrapedGame(d, pts) == [game_date |-> d, points |-> pts]

\* the game logs _scrape_player_game_log can return: no game, a game on day
\* 1 with either value of the stat, a game on day 2, games on both days
ScrapedLogs ==
    { <<>>,
      <<ScrapedGame(1, 1)>>, <<ScrapedGame(1, 2)>>, <<ScrapedGame(2, 1)>>,
      <<ScrapedGame(1, 2), ScrapedGame(2, 1)>> }

\* the game_stats rows a run can start from: none, a game of player 1 on
\* day 1, a game of each player on day 1
StoredGames ==
    { <<>>,
      [k \in { <<1, 1>> } |-> 1],
      [k \in { <<1, 1>>, <<2, 1>> } |-> 1] }

\* a table with the rows of changes written over it
Written(table, changes) ==
    [k \in DOMAIN table \cup DOMAIN changes |->
        IF k \in DOMAIN changes THEN changes[k] ELSE table[k]]

\* the player was not found (342-351): session.commit() writes the player
\* row and flushes what the session holds
PlayerIsNew(player_id) == player_id \notin db_players

GamesAfterPlayerCommit(player_id) ==
    IF PlayerIsNew(player_id) THEN Written(db_games, session_dirty)
    ELSE db_games

DirtyAfterPlayerCommit(player_id) ==
    IF PlayerIsNew(player_id) THEN <<>> ELSE session_dirty

\* existing_game of 355-358: the row of the player on that date
ExistingGame(player_id, game, stored) == <<player_id, game.game_date>> \in DOMAIN stored

\* the setattr calls of 360-363 for the games of the log that are stored
UpdatesOf(player_id, log, stored) ==
    LET at == { i \in 1..Len(log) : ExistingGame(player_id, log[i], stored) }
    IN  [k \in { <<player_id, log[i].game_date>> : i \in at } |->
            log[CHOOSE i \in at :
                    /\ log[i].game_date = k[2]
                    /\ \A j \in at : log[j].game_date = k[2] => j <= i].points]

\* the rows added at 364-371
AddsOf(player_id, log, stored) ==
    LET at == { i \in 1..Len(log) : ~ExistingGame(player_id, log[i], stored) }
    IN  [k \in { <<player_id, log[i].game_date>> : i \in at } |->
            log[CHOOSE i \in at : log[i].game_date = k[2]].points]

\* new_games_added (339, 371)
NewGamesAdded(player_id, log, stored) ==
    Cardinality({ i \in 1..Len(log) : ~ExistingGame(player_id, log[i], stored) })

\* if new_games_added > 0: session.commit() (374-375)
CommitsGames(new_games_added) == new_games_added > 0

ScrapePlayerLists == { <<1, 2>> }

\* positions inside the loop over the players: before the first pass or
\* after a pass without a scraped game, after a pass in which
\* _save_games_to_db returned, after a pass that was rolled back
InScrapeLoop == pc \in {"scrape_players", "scrape_saved", "scrape_skipped"}

InitScrape ==
    /\ IdleExact /\ IdleCull
    /\ pc = "scrape_players"
    /\ players \in ScrapePlayerLists
    /\ scraped_count = 0
    /\ games_data = <<>>
    /\ new_games_saved = 0
    /\ db_games \in StoredGames
    /\ db_players = { k[1] : k \in DOMAIN db_games }
    /\ session_dirty = <<>>
    /\ IdleCmp /\ IdlePool /\ IdleLeague /\ IdleTrade
    /\ n_sim_weeks = None /\ player_weekly_stats_map = None

\* one pass of the loop of 53-83 in which _save_games_to_db is not called
\* (no game scraped) or returns normally
ScrapePlayer ==
    /\ InScrapeLoop
    /\ scraped_count < Len(players)
    /\ scraped_count' = scraped_count + 1
    /\ games_data' \in ScrapedLogs
    /\ LET player_id == players[scraped_count + 1]
           stored == GamesAfterPlayerCommit(player_id)
           dirty == Written(DirtyAfterPlayerCommit(player_id),
                            UpdatesOf(player_id, games_data', stored))
           adds == AddsOf(player_id, games_data', stored)
           new_games_added == NewGamesAdded(player_id, games_data', stored)
       IN  IF games_data' = <<>>
           THEN /\ new_games_saved' = 0
                /\ UNCHANGED <<db_players, db_games, session_dirty>>
           ELSE /\ new_games_saved' = new_games_added
                /\ db_players' = db_players \cup {player_id}
                /\ IF CommitsGames(new_games_added)
                   THEN /\ db_games' = Written(Written(stored, dirty), adds)
                        /\ session_dirty' = <<>>
                   ELSE /\ db_games' = stored
                        /\ session_dirty' = dirty
    /\ pc' = IF games_data' = <<>> THEN "scrape_players" ELSE "scrape_saved"
    /\ UNCHANGED <<players, cullVars, exactVars, cmpVars, poolVars, leagueVars,
                   tradeVars, n_sim_weeks, player_weekly_stats_map>>

\* a pass in which the database raises SQLAlchemyError in _save_games_to_db:
\* the except clause of 69-74 rolls the session back and skips the player
ScrapePlayerRollsBack ==
    /\ InScrapeLoop
    /\ scraped_count < Len(players)
    /\ scraped_count' = scraped_count + 1
    /\ games_data' \in ScrapedLogs \ { <<>> }
    /\ new_games_saved' = 0
    /\ session_dirty' = <<>>
    /\ pc' = "scrape_skipped"
    /\ UNCHANGED <<players, db_players, db_games, cullVars, exactVars, cmpVars,
                   poolVars, leagueVars, tradeVars, n_sim_weeks,
                   player_weekly_stats_map>>

\* the loop is over (85); main.py 352-354 closes the session, which drops
\* what it holds uncommitted
ScrapeFinished ==
    /\ InScrapeLoop
    /\ scraped_count = Len(players)
    /\ session_dirty' = <<>>
    /\ pc' = "scrape_done"
    /\ UNCHANGED <<players, scraped_count, games_data, new_games_saved,
                   db_players, db_games, cullVars, exactVars, cmpVars,
                   poolVars, leagueVars, tradeVars, n_sim_weeks,
                   player_weekly_stats_map>>

NextScrape == ScrapePlayer \/ ScrapePlayerRollsBack \/ ScrapeFinished

SpecScrape == InitScrape /\ [][NextScrape]_vars

\* _save_games_to_db has just returned normally for a player
SavedNormally == pc = "scrape_saved"

\* the scraped games of the last player are in the game_stats table as scraped
ScrapedDataCommitted ==
    \A i \in 1..Len(games_data) :
        LET k == <<players[scraped_count], games_data[i].game_date>>
        IN  k \in DOMAIN db_games /\ db_games[k] = games_data[i].points

\* C29: when _save_games_to_db returns normally for a player, the player's
\* scraped games are committed: the new games and the updates of the games
\* already stored, also when no scraped game is new.
C29_ScrapedDataCommitted ==
    SavedNormally => ScrapedDataCommitted

\* the updates of a log without a new game wait in the session
C29_WitnessPendingUpdate ==
    /\ SavedNormally /\ new_games_saved = 0
    /\ session_dirty # <<>>
    /\ ~ScrapedDataCommitted

\* a log with a new game is committed with its updates
C29_WitnessCommitted ==
    /\ SavedNormally /\ new_games_saved > 0 /\ Len(games_data) > new_games_saved
    /\ ScrapedDataCommitted

(***************************************************************************)
(* model.py: the culling phase of run_simulations (172-244)                *)
(***************************************************************************)
\* model.py 181, 188, 15
TARGET_PLAYER_COUNT == 200
PLAYERS_TO_DROP_PER_CYCLE == 20
INITIAL_ELO == 1500

\* the largest pool the model loads, and the number of outcomes of the
\* random simulations of one cycle it tells apart
MaxInitialPlayers == 245
NumEloDraws == 2

Min(a, b) == IF a <= b THEN a ELSE b

\* overall_elo of a player after the 2500 simulations of a cycle (197-224):
\* INITIAL_ELO moved by the matchups the random drafts gave the player,
\* here one of five values by player and draw
EloAfterCycle(player, draw) ==
    INITIAL_ELO + 5 * (((player * 7 + draw * 3) % 5) - 2)

\* sorted(players_with_games, key=overall_elo) (228): stable, ascending
RECURSIVE SortedByElo(_, _)
SortedByElo(list, elo) ==
    IF list = <<>> THEN <<>>
    ELSE LET least == CHOOSE v \in { elo[list[i]] : i \in 1..Len(list) } :
                        \A i \in 1..Len(list) : v <= elo[list[i]]
         IN  SelectSeq(list, LAMBDA q : elo[q] = least)
                \o SortedByElo(SelectSeq(list, LAMBDA q : elo[q] # least), elo)

\* faulty variant: a full batch in every cycle
num_to_drop_FullBatch(current_player_count) == PLAYERS_TO_DROP_PER_CYCLE

\* num_to_drop (230)
num_to_drop(current_player_count) ==
    Min(PLAYERS_TO_DROP_PER_CYCLE, current_player_count - TARGET_PLAYER_COUNT)

InitCull ==
    /\ IdleExact /\ IdleScrape
    /\ pc = "load_players"
    /\ \E count \in (TARGET_PLAYER_COUNT - 1)..MaxInitialPlayers :
          players_with_games = [i \in 1..count |-> i]
    /\ elo_data = <<>>
    /\ IdleCmp /\ IdlePool /\ IdleLeague /\ IdleTrade
    /\ n_sim_weeks = None /\ player_weekly_stats_map = None

\* 181-186: the culling phase is skipped for a pool at or below the target
CullingStart ==
    /\ pc = "load_players"
    /\ pc' = IF Len(players_with_games) <= TARGET_PLAYER_COUNT
             THEN "final_simulations" ELSE "culling"
    /\ UNCHANGED <<cullVars, scrapeVars, exactVars, cmpVars, poolVars,
                   leagueVars, tradeVars, n_sim_weeks, player_weekly_stats_map>>

\* one pass of the while loop (190-241)
CullingCycle ==
    /\ pc = "culling"
    /\ Len(players_with_games) > TARGET_PLAYER_COUNT
    /\ \E draw \in 1..NumEloDraws :
          elo_data' = [q \in Range(players_with_games) |-> EloAfterCycle(q, draw)]
    /\ LET sorted_by_elo == SortedByElo(players_with_games, elo_data')
           dropped == num_to_drop(Len(players_with_games))
       IN  IF dropped <= 0
           THEN /\ pc' = "final_simulations"
                /\ UNCHANGED players_with_games
           ELSE /\ pc' = "culling"
                /\ players_with_games' =
                      SubSeq(sorted_by_elo, dropped + 1, Len(sorted_by_elo))
    /\ UNCHANGED <<scrapeVars, exactVars, cmpVars, poolVars, leagueVars,
                   tradeVars, n_sim_weeks, player_weekly_stats_map>>

\* the condition of the while loop fails (190, 243-244)
CullingDone ==
    /\ pc = "culling"
    /\ ~(Len(players_with_games) > TARGET_PLAYER_COUNT)
    /\ pc' = "final_simulations"
    /\ UNCHANGED <<cullVars, scrapeVars, exactVars, cmpVars, poolVars,
                   leagueVars, tradeVars, n_sim_weeks, player_weekly_stats_map>>

NextCull == CullingStart \/ CullingCycle \/ CullingDone

SpecCull == InitCull /\ [][NextCull]_vars

\* the run is single-threaded and every pass of the loop is a bounded
\* computation: a step that can be taken is taken
FairSpecCull == SpecCull /\ WF_vars(NextCull)

\* the players a pass of the loop removed
DroppedInCycle == Range(players_with_games) \ Range(players_with_games')

\* a pass removes between 1 and 20 players, all of them with an overall Elo
\* at most that of every player kept, and leaves at least the target
CycleDropsLowest ==
    /\ Range(players_with_games') \subseteq Range(players_with_games)
    /\ Len(players_with_games') =
            Len(players_with_games) - Cardinality(DroppedInCycle)
    /\ Cardinality(DroppedInCycle) >= 1
    /\ Cardinality(DroppedInCycle) <= PLAYERS_TO_DROP_PER_CYCLE
    /\ Len(players_with_games') >= TARGET_PLAYER_COUNT
    /\ \A d \in DroppedInCycle : \A q \in Range(players_with_games') :
            elo_data'[d] <= elo_data'[q]

\* C30: the culling phase ends for every pool above the target; each cycle
\* removes 1 to 20 players of lowest overall Elo and never goes below the
\* target, and the phase ends with exactly TARGET_PLAYER_COUNT players.
C30_CullingEndsAtTarget ==
    /\ (pc = "culling") ~> (pc = "final_simulations")
    /\ [][pc = "culling" /\ pc' = "culling" => CycleDropsLowest]_vars
    /\ [][pc = "culling" => pc' = "culling"
            \/ Len(players_with_games') = TARGET_PLAYER_COUNT]_vars

\* the phase ended at the target after a last cycle that removed fewer than
\* a full batch
C30_Witness ==
    /\ pc = "final_simulations"
    /\ Len(players_with_games) = TARGET_PLAYER_COUNT
    /\ Cardinality(DOMAIN elo_data) > TARGET_PLAYER_COUNT
    /\ Cardinality(DOMAIN elo_data) < TARGET_PLAYER_COUNT + PLAYERS_TO_DROP_PER_CYCLE
    /\ \E q \in 1..MaxInitialPlayers : q \notin Range(players_with_games)

====
